---- MODULE Spec2Model ----
(***************************************************************************)
(* PrinterStatus: the device registry, history ledger, error ledger and    *)
(* polling scheduler of src/services/printerService.ts, with the error     *)
(* code extractor of src/utils/errorCodes.ts.                              *)
(*                                                                         *)
(* Texts are sequences of one-character strings, so that the extractor's   *)
(* patterns can be applied to them character by character.                 *)
(***************************************************************************)
EXTENDS Integers, Sequences, FiniteSets, TLC

(***************************************************************************)
(* Text helpers (JavaScript string and RegExp primitives)                  *)
(***************************************************************************)
UpperSeq == <<"A","B","C","D","E","F","G","H","I","J","K","L","M",
              "N","O","P","Q","R","S","T","U","V","W","X","Y","Z">>
LowerSeq == <<"a","b","c","d","e","f","g","h","i","j","k","l","m",
              "n","o","p","q","r","s","t","u","v","w","x","y","z">>
Digits == {"0","1","2","3","4","5","6","7","8","9"}
UpperSet == {UpperSeq[i] : i \in 1..26}
LowerSet == {LowerSeq[i] : i \in 1..26}
WhiteSpace == {" ", "\t", "\n"}

\* \d, \s and \w of a RegExp without the u flag
IsDigit(c) == c \in Digits
IsSpace(c) == c \in WhiteSpace
IsWord(c) == c \in Digits \cup UpperSet \cup LowerSet \cup {"_"}

\* the i flag: characters are compared after canonicalisation to upper case
ToUpper(c) ==
    IF c \in LowerSet THEN UpperSeq[CHOOSE i \in 1..26 : LowerSeq[i] = c] ELSE c

\* String.prototype.toLowerCase / toUpperCase
ToLower(c) ==
    IF c \in UpperSet THEN LowerSeq[CHOOSE i \in 1..26 : UpperSeq[i] = c] ELSE c
toLowerCase(s) == [i \in 1..Len(s) |-> ToLower(s[i])]
toUpperCase(s) == [i \in 1..Len(s) |-> ToUpper(s[i])]

\* String.prototype.includes
includes(s, k) ==
    \E p \in 1..(Len(s) - Len(k) + 1) : \A j \in 1..Len(k) : s[p + j - 1] = k[j]

\* \b at the gap after the first i characters of t (0 <= i <= Len(t))
Boundary(t, i) ==
    LET l == i >= 1 /\ IsWord(t[i])
        r == i + 1 <= Len(t) /\ IsWord(t[i + 1])
    IN  l # r

\* t has character class cls at index i
At(t, i, cls) == i >= 1 /\ i <= Len(t) /\ t[i] \in cls

\* t continues at index p with the literal lit, compared case-insensitively
LitAtI(t, p, lit) ==
    /\ p + Len(lit) - 1 <= Len(t)
    /\ \A j \in 1..Len(lit) : ToUpper(t[p + j - 1]) = ToUpper(lit[j])

\* length of the longest run of characters of cls that starts at index p
RECURSIVE RunLen(_, _, _)
RunLen(t, p, cls) == IF At(t, p, cls) THEN 1 + RunLen(t, p + 1, cls) ELSE 0

NoMatch == [ok |-> FALSE, from |-> 0, to |-> 0]

\* a fixed-shape pattern \b(c1 c2 ... cn)\b, shape = the classes c1..cn
MatchShape(t, p, shape) ==
    LET n == Len(shape) IN
    IF /\ Boundary(t, p - 1)
       /\ \A j \in 1..n : At(t, p + j - 1, shape[j])
       /\ Boundary(t, p + n - 1)
    THEN [ok |-> TRUE, from |-> p, to |-> p + n - 1]
    ELSE NoMatch

\* \bword\s+(cls+)\b with the i flag: the greedy group gives characters back
\* until a word boundary follows it
MatchWordThen(t, p, word, cls) ==
    LET w  == Len(word)
        s  == RunLen(t, p + w, WhiteSpace)
        q  == p + w + s
        n  == RunLen(t, q, cls)
        ks == {k \in 1..n : Boundary(t, q + k - 1)}
    IN  IF /\ Boundary(t, p - 1)
           /\ LitAtI(t, p, word)
           /\ s >= 1
           /\ ks # {}
        THEN [ok |-> TRUE, from |-> q,
              to |-> q + (CHOOSE k \in ks : \A j \in ks : j <= k) - 1]
        ELSE NoMatch

D2 == <<Digits, Digits>>
Dot == {"."}
CodeTokenChars == UpperSet \cup LowerSet \cup Digits \cup {"-", "."}

NumPatterns == 7

\* the k-th pattern of parseErrorFromText tried at index p of t
MatchAt(k, t, p) ==
    CASE k = 1 -> MatchShape(t, p, D2 \o <<Dot>> \o D2)
      [] k = 2 -> MatchShape(t, p, D2 \o <<Dot>> \o D2 \o <<Dot>> \o D2)
      [] k = 3 -> MatchShape(t, p, <<{"E", "W"}, {"-"}>> \o D2)
      [] k = 4 -> MatchShape(t, p, <<{"E"}>> \o D2)
      [] k = 5 -> MatchShape(t, p, D2 \o <<{"A","B","C","D","E","F"}, Digits>>)
      [] k = 6 -> MatchWordThen(t, p, <<"E","r","r","o","r">>, Digits)
      [] k = 7 -> MatchWordThen(t, p, <<"C","o","d","e">>, CodeTokenChars)

\* push without the test of includes
AddAlways(acc, code) == Append(acc, code)

\* errorCodes.includes(code) / push
AddUnique(acc, code) ==
    IF \E i \in 1..Len(acc) : acc[i] = code THEN acc ELSE Append(acc, code)

\* const x = v; return F(x): v is computed once
Bind(v, F(_)) == CHOOSE r \in {F(x) : x \in {v}} : TRUE

\* while ((match = pattern.exec(text)) !== null): leftmost match at or after
\* lastIndex, then lastIndex moves to the end of that match
RECURSIVE ExecAll(_, _, _, _)
ExecAll(k, t, p, acc) ==
    Bind({q \in p..Len(t) : MatchAt(k, t, q).ok}, LAMBDA starts :
        IF starts = {} THEN acc
        ELSE Bind(MatchAt(k, t, CHOOSE q \in starts : \A r \in starts : q <= r),
                  LAMBDA m :
                    Bind(AddUnique(acc, SubSeq(t, m.from, m.to)), LAMBDA codes :
                        ExecAll(k, t, m.to + 1, codes))))

RECURSIVE ApplyPatterns(_, _, _)
ApplyPatterns(k, t, acc) ==
    IF k > NumPatterns THEN acc
    ELSE Bind(ExecAll(k, t, 1, acc), LAMBDA codes : ApplyPatterns(k + 1, t, codes))

extractCodes(text) == ApplyPatterns(1, text, <<>>)

(***************************************************************************)
(* Values                                                                  *)
(***************************************************************************)
\* enum PrinterStatus
READY == "ready"
PRINTING == "printing"
LOADING_PAPER == "loading_paper"
PAPER_JAM == "paper_jam"
PAPER_OUT == "paper_out"
LOW_INK == "low_ink"
CARTRIDGE_ISSUE == "cartridge_issue"
OFFLINE == "offline"
ERROR == "error"
MAINTENANCE_REQUIRED == "maintenance_required"
PrinterStatus == {READY, PRINTING, LOADING_PAPER, PAPER_JAM, PAPER_OUT, LOW_INK,
                  CARTRIDGE_ISSUE, OFFLINE, ERROR, MAINTENANCE_REQUIRED}

\* an optional text (message?, errorCode?, lastErrorCode) that is undefined;
\* every text the service stores in such a field is non-empty
Undefined == <<>>
\* no object (a Map miss, a cleared reference)
NullRef == 0

\* messages the service writes itself
NetworkUnreachable == <<"N","e","t","w","o","r","k"," ","u","n","r","e","a","c","h","a","b","l","e">>
AssumingReady == 
    <<"S","t","a","t","u","s"," ","d","e","t","e","c","t","i","o","n"," ","l","i","m","i","t","e","d"," ","-"," ","a","s","s","u","m","i","n","g"," ","r","e","a","d","y">>
ConnectionErrorPrefix == <<"C","o","n","n","e","c","t","i","o","n"," ","e","r","r","o","r",":"," ">>

\* history.length > 50
HistoryLimit == 50

(***************************************************************************)
(* Bounds and inputs                                                       *)
(***************************************************************************)
\* device ids offered to addPrinter, in a fixed order
DevSeq == <<"p1", "p2">>
DevIds == {DevSeq[i] : i \in 1..Len(DevSeq)}
\* config.model of the device registered under each id
ConfigModel == [p1 |-> <<"E","p","s","o","n">>, p2 |-> <<"H","P">>]
\* checkAllPrinters / checkPrinterStatus calls that may be in flight together
MaxCycles == 2
\* checks started in one behaviour of Spec, and of SpecFleet
MaxChecks == 2
MaxFleetChecks == 2
CycleIds == 1..MaxCycles
\* the count of started checks stops here
CheckCap == IF MaxChecks > MaxFleetChecks THEN MaxChecks ELSE MaxFleetChecks
\* Printer objects alive at once: one per registered device, one per check in
\* flight, one being built
ObjRefs == 1..(Len(DevSeq) * (MaxCycles + 1) + 1)
\* errorCodes arrays alive at once (each belongs to at least one live object)
ArrRefs == ObjRefs
TimerIds == 1..2

\* status data a device's endpoints may yield (the result of parseHttpResponse)
FetchResults ==
    { [status |-> READY, message |-> <<"S","t","a","t","u","s"," ","f","r","o","m"," ","J","S","O","N"," ","A","P","I">>, errorCode |-> Undefined],
      [status |-> PAPER_JAM, message |-> <<"j","a","m"," ","E","-","0","1">>, errorCode |-> <<"E","-","0","1">>] }
\* codes an operator may ask to resolve
ResolveCodes == { <<"E","-","0","1">>, <<"E","0","2">> }
\* texts of exceptions (`${error}`)
Exceptions == { <<"E","r","r","o","r",":"," ","E","-","0","1">> }

\* the texts a check can hand to processErrorCodes, and what the extractor
\* finds in each: a table, so that a text is scanned once and not at each step
KnownTexts ==
    {r.message : r \in FetchResults} \cup {AssumingReady}
        \cup {ConnectionErrorPrefix \o e : e \in Exceptions}
KnownCodes == [t \in KnownTexts |-> extractCodes(t)]

parseErrorFromText(text) ==
    IF text \in KnownTexts THEN KnownCodes[text] ELSE extractCodes(text)

(***************************************************************************)
(* State                                                                   *)
(***************************************************************************)
VARIABLES
    printers,            \* this.printers: Map id -> Printer object (a reference)
    statusHistory,       \* this.statusHistory: Map id -> StatusHistoryEntry[]
    monitoringInterval,  \* this.monitoringInterval: timer handle or NullRef
    heap,                \* the Printer objects, by reference
    arrays,              \* the errorCodes arrays, by reference
    timers,              \* interval timers that are installed and not cleared
    cycles,              \* calls of checkAllPrinters / checkPrinterStatus in flight
    started,             \* checks started so far (it stops at CheckCap)
    last,                \* the operation performed last, and how it ended
    fetch,               \* a call of tryHttpStatusDetection: its loop over endpoints
    call,                \* a call of a function of the text pipeline: argument, value
    ping,                \* a call of pingPrinter: the probe methods it has run
    storage,             \* localStorage: the items 'printers' and 'printerHistory'
    now                  \* the reading of the clock: what new Date() gives

vars == <<printers, statusHistory, monitoringInterval, heap, arrays, timers,
          cycles, started, last, fetch, call, ping, storage, now>>

\* a free slot of the heap
NoObj == [id |-> "", model |-> Undefined, status |-> "", statusHistory |-> <<>>,
          errorCodes |-> NullRef, lastErrorCode |-> Undefined]

\* the part of the state the registry's methods read and write
Store == [printers |-> printers, statusHistory |-> statusHistory,
          heap |-> heap, arrays |-> arrays, storage |-> storage]

\* Map.set, Map.delete
MapSet(m, k, v) == [x \in (DOMAIN m) \cup {k} |-> IF x = k THEN v ELSE m[x]]
MapDelete(m, k) == [x \in (DOMAIN m) \ {k} |-> m[x]]

\* a new object / a new array: the lowest slot not in use
NewObj(S) == CHOOSE r \in ObjRefs :
    S.heap[r] = NoObj /\ \A q \in ObjRefs : q < r => S.heap[q] # NoObj
ArrInUse(S) == {S.heap[o].errorCodes : o \in ObjRefs}
NewArr(S) == CHOOSE r \in ArrRefs :
    r \notin ArrInUse(S) /\ \A q \in ArrRefs : q < r => q \in ArrInUse(S)

(***************************************************************************)
(* Persistence (lines 41-87).  JSON.stringify writes values: a record is   *)
(* stored with the entries of its errorCodes array in it, not with a       *)
(* reference; JSON.parse builds new objects and arrays.                    *)
(***************************************************************************)
\* localStorage with neither item set: getItem returns null
NoItem == [null |-> TRUE]
NoStorage == [printers |-> NoItem, printerHistory |-> NoItem]

\* JSON.stringify(Array.from(this.printers.values())): the records by value
stringifyPrinters(S) ==
    [d \in DOMAIN S.printers |->
        [S.heap[S.printers[d]] EXCEPT !.errorCodes = S.arrays[@]]]

\* saveToStorage writing the item 'printers' only
saveToStorageDevicesOnly(S) ==
    Bind(S, LAMBDA T :
        [T EXCEPT !.storage = [@ EXCEPT !.printers = stringifyPrinters(T)]])

saveToStorage(S) ==
    Bind(S, LAMBDA T :
        [T EXCEPT !.storage = [printers |-> stringifyPrinters(T),
                               printerHistory |-> T.statusHistory]])

\* printersArray.forEach of loadFromStorage, for the devices from index i on:
\* each parsed record is a new object with a new errorCodes array
RECURSIVE LoadEach(_, _, _)
LoadEach(S, printersArray, i) ==
    IF i > Len(DevSeq) THEN S
    ELSE IF DevSeq[i] \notin DOMAIN printersArray THEN LoadEach(S, printersArray, i + 1)
    ELSE LET printer == printersArray[DevSeq[i]]
             o == NewObj(S)
             a == NewArr(S)
         IN  LoadEach([S EXCEPT !.heap = [@ EXCEPT ![o] = [printer EXCEPT !.errorCodes = a]],
                                !.arrays = [@ EXCEPT ![a] = printer.errorCodes],
                                !.printers = MapSet(@, printer.id, o)],
                      printersArray, i + 1)

\* loadFromStorage on the maps S of a service just constructed
loadFromStorage(S) ==
    LET S1 == IF S.storage.printers # NoItem
              THEN LoadEach(S, S.storage.printers, 1) ELSE S
    IN  IF S.storage.printerHistory # NoItem
        THEN [S1 EXCEPT !.statusHistory = S.storage.printerHistory]
        ELSE S1

(***************************************************************************)
(* The error code catalog (src/utils/errorCodes.ts)                        *)
(***************************************************************************)
\* enum ErrorSeverity, enum ErrorCategory
LOW == "low"
MEDIUM == "medium"
HIGH == "high"
CRITICAL == "critical"
ErrorSeverity == {LOW, MEDIUM, HIGH, CRITICAL}
PAPER == "paper"
INK_TONER == "ink_toner"
MECHANICAL == "mechanical"
NETWORK == "network"
SYSTEM == "system"
USER_INTERVENTION == "user_intervention"
ErrorCategory == {PAPER, INK_TONER, MECHANICAL, NETWORK, SYSTEM, USER_INTERVENTION}

ERROR_CODE_DATABASE ==
    <<"1","3",".","0","1">> :> [description |-> <<"P","a","p","e","r"," ","j","a","m"," ","i","n"," ","i","n","p","u","t"," ","t","r","a","y">>,
        severity |-> MEDIUM, category |-> PAPER] @@
    <<"1","3",".","0","2">> :> [description |-> <<"P","a","p","e","r"," ","j","a","m"," ","i","n"," ","o","u","t","p","u","t"," ","t","r","a","y">>,
        severity |-> MEDIUM, category |-> PAPER] @@
    <<"1","3",".","0","5">> :> [description |-> <<"P","a","p","e","r"," ","j","a","m"," ","i","n"," ","f","u","s","e","r"," ","a","r","e","a">>,
        severity |-> HIGH, category |-> PAPER] @@
    <<"4","1",".","0","1">> :> [description |-> <<"P","a","p","e","r"," ","s","i","z","e"," ","m","i","s","m","a","t","c","h">>,
        severity |-> LOW, category |-> PAPER] @@
    <<"4","1",".","0","3">> :> [description |-> <<"P","a","p","e","r"," ","t","y","p","e"," ","m","i","s","m","a","t","c","h">>,
        severity |-> LOW, category |-> PAPER] @@
    <<"1","0",".","0","0">> :> [description |-> <<"B","l","a","c","k"," ","c","a","r","t","r","i","d","g","e"," ","m","i","s","s","i","n","g"," ","o","r"," ","n","o","t"," ","d","e","t","e","c","t","e","d">>,
        severity |-> HIGH, category |-> INK_TONER] @@
    <<"1","0",".","0","1">> :> [description |-> <<"C","y","a","n"," ","c","a","r","t","r","i","d","g","e"," ","m","i","s","s","i","n","g"," ","o","r"," ","n","o","t"," ","d","e","t","e","c","t","e","d">>,
        severity |-> HIGH, category |-> INK_TONER] @@
    <<"1","0",".","0","2">> :> [description |-> <<"M","a","g","e","n","t","a"," ","c","a","r","t","r","i","d","g","e"," ","m","i","s","s","i","n","g"," ","o","r"," ","n","o","t"," ","d","e","t","e","c","t","e","d">>,
        severity |-> HIGH, category |-> INK_TONER] @@
    <<"1","0",".","0","3">> :> [description |-> <<"Y","e","l","l","o","w"," ","c","a","r","t","r","i","d","g","e"," ","m","i","s","s","i","n","g"," ","o","r"," ","n","o","t"," ","d","e","t","e","c","t","e","d">>,
        severity |-> HIGH, category |-> INK_TONER] @@
    <<"1","0",".","1","0">> :> [description |-> <<"C","a","r","t","r","i","d","g","e"," ","i","n","c","o","m","p","a","t","i","b","l","e"," ","o","r"," ","c","o","u","n","t","e","r","f","e","i","t">>,
        severity |-> MEDIUM, category |-> INK_TONER] @@
    <<"5","0",".","0","1">> :> [description |-> <<"F","u","s","e","r"," ","e","r","r","o","r"," ","-"," ","t","e","m","p","e","r","a","t","u","r","e"," ","t","o","o"," ","l","o","w">>,
        severity |-> HIGH, category |-> MECHANICAL] @@
    <<"5","0",".","0","2">> :> [description |-> <<"F","u","s","e","r"," ","e","r","r","o","r"," ","-"," ","t","e","m","p","e","r","a","t","u","r","e"," ","t","o","o"," ","h","i","g","h">>,
        severity |-> CRITICAL, category |-> MECHANICAL] @@
    <<"5","1",".","0","1">> :> [description |-> <<"L","a","s","e","r"," ","s","c","a","n","n","e","r"," ","e","r","r","o","r">>,
        severity |-> HIGH, category |-> MECHANICAL] @@
    <<"5","2",".","0","1">> :> [description |-> <<"S","c","a","n","n","e","r"," ","m","o","t","o","r"," ","e","r","r","o","r">>,
        severity |-> HIGH, category |-> MECHANICAL] @@
    <<"7","9",".","0","0">> :> [description |-> <<"N","e","t","w","o","r","k"," ","c","o","m","m","u","n","i","c","a","t","i","o","n"," ","e","r","r","o","r">>,
        severity |-> MEDIUM, category |-> NETWORK] @@
    <<"7","9",".","0","1">> :> [description |-> <<"N","e","t","w","o","r","k"," ","t","i","m","e","o","u","t"," ","e","r","r","o","r">>,
        severity |-> LOW, category |-> NETWORK] @@
    <<"2","0",".","0","0">> :> [description |-> <<"M","e","m","o","r","y"," ","e","r","r","o","r"," ","-"," ","i","n","s","u","f","f","i","c","i","e","n","t"," ","R","A","M">>,
        severity |-> MEDIUM, category |-> SYSTEM] @@
    <<"2","1",".","0","0">> :> [description |-> <<"P","a","g","e"," ","t","o","o"," ","c","o","m","p","l","e","x"," ","t","o"," ","p","r","i","n","t">>,
        severity |-> LOW, category |-> SYSTEM] @@
    <<"2","2",".","0","0">> :> [description |-> <<"E","I","O"," ","c","a","r","d"," ","e","r","r","o","r">>,
        severity |-> MEDIUM, category |-> SYSTEM] @@
    <<"3","0",".","0","1">> :> [description |-> <<"C","o","v","e","r"," ","o","p","e","n">>,
        severity |-> LOW, category |-> USER_INTERVENTION] @@
    <<"3","0",".","0","2">> :> [description |-> <<"T","r","a","y"," ","m","i","s","s","i","n","g">>,
        severity |-> LOW, category |-> USER_INTERVENTION] @@
    <<"4","0",".","0","1">> :> [description |-> <<"B","a","d"," ","s","e","r","i","a","l"," ","t","r","a","n","s","m","i","s","s","i","o","n">>,
        severity |-> MEDIUM, category |-> NETWORK]

HP_ERROR_CODES ==
    <<"4","9",".","3","8",".","0","1">> :> [description |-> <<"F","i","r","m","w","a","r","e"," ","e","r","r","o","r"," ","-"," ","c","o","r","r","u","p","t"," ","p","r","i","n","t"," ","j","o","b">>,
        severity |-> MEDIUM, category |-> SYSTEM] @@
    <<"5","9",".","F","0">> :> [description |-> <<"T","r","a","n","s","f","e","r"," ","r","o","l","l","e","r"," ","m","o","t","o","r"," ","e","r","r","o","r">>,
        severity |-> HIGH, category |-> MECHANICAL]

CANON_ERROR_CODES ==
    <<"E","0","2">> :> [description |-> <<"P","a","p","e","r"," ","f","e","e","d"," ","e","r","r","o","r">>,
        severity |-> MEDIUM, category |-> PAPER] @@
    <<"E","0","3">> :> [description |-> <<"P","a","p","e","r"," ","j","a","m"," ","e","r","r","o","r">>,
        severity |-> MEDIUM, category |-> PAPER] @@
    <<"E","0","4">> :> [description |-> <<"I","n","k"," ","c","a","r","t","r","i","d","g","e"," ","n","o","t"," ","r","e","c","o","g","n","i","z","e","d">>,
        severity |-> HIGH, category |-> INK_TONER] @@
    <<"E","0","5">> :> [description |-> <<"I","n","k"," ","c","a","r","t","r","i","d","g","e"," ","n","o","t"," ","i","n","s","t","a","l","l","e","d">>,
        severity |-> HIGH, category |-> INK_TONER]

EPSON_ERROR_CODES ==
    <<"W","-","0","1">> :> [description |-> <<"I","n","k"," ","p","a","d"," ","a","t"," ","e","n","d"," ","o","f"," ","s","e","r","v","i","c","e"," ","l","i","f","e">>,
        severity |-> HIGH, category |-> MECHANICAL] @@
    <<"E","-","0","1">> :> [description |-> <<"P","r","i","n","t","e","r"," ","h","e","a","d"," ","e","r","r","o","r">>,
        severity |-> CRITICAL, category |-> MECHANICAL] @@
    <<"E","-","0","2">> :> [description |-> <<"S","c","a","n","n","e","r"," ","e","r","r","o","r">>,
        severity |-> HIGH, category |-> MECHANICAL]

\* null, and a member every object literal inherits from Object.prototype (a
\* function: truthy, without description, severity or category)
Null == [null |-> TRUE]
Inherited == [inherited |-> TRUE]
ObjectPrototype ==
    { <<"c","o","n","s","t","r","u","c","t","o","r">>, <<"t","o","S","t","r","i","n","g">>, <<"v","a","l","u","e","O","f">>, <<"h","a","s","O","w","n","P","r","o","p","e","r","t","y">>,
      <<"i","s","P","r","o","t","o","t","y","p","e","O","f">>, <<"t","o","L","o","c","a","l","e","S","t","r","i","n","g">>, <<"p","r","o","p","e","r","t","y","I","s","E","n","u","m","e","r","a","b","l","e">> }

\* table[code]
Lookup(table, code) ==
    IF code \in DOMAIN table THEN table[code]
    ELSE IF code \in ObjectPrototype THEN Inherited
    ELSE Null

\* getErrorCodeInfo with the vendor tables left out
getErrorCodeInfoNeutral(code, printerModel) == Lookup(ERROR_CODE_DATABASE, code)

\* getErrorCodeInfo(code, printerModel)
getErrorCodeInfo(code, printerModel) ==
    LET modelUpper == toUpperCase(printerModel)
        has(vendor) == includes(modelUpper, vendor)
    IN  IF printerModel # Undefined /\ has(<<"H","P">>) /\ Lookup(HP_ERROR_CODES, code) # Null
        THEN Lookup(HP_ERROR_CODES, code)
        ELSE IF printerModel # Undefined /\ has(<<"C","A","N","O","N">>)
                /\ Lookup(CANON_ERROR_CODES, code) # Null
        THEN Lookup(CANON_ERROR_CODES, code)
        ELSE IF printerModel # Undefined /\ has(<<"E","P","S","O","N">>)
                /\ Lookup(EPSON_ERROR_CODES, code) # Null
        THEN Lookup(EPSON_ERROR_CODES, code)
        ELSE Lookup(ERROR_CODE_DATABASE, code)

\* errorInfo?.field || fallback
OrElse(errorInfo, field, fallback) ==
    IF field \in DOMAIN errorInfo THEN errorInfo[field] ELSE fallback

\* the newError literal of processErrorCodes
newError(code, printerModel) ==
    LET errorInfo == getErrorCodeInfo(code, printerModel) IN
    [code |-> code,
     description |-> OrElse(errorInfo, "description", <<"U","n","k","n","o","w","n"," ","e","r","r","o","r"," ","c","o","d","e",":"," ">> \o code),
     severity |-> OrElse(errorInfo, "severity", MEDIUM),
     category |-> OrElse(errorInfo, "category", SYSTEM),
     resolved |-> FALSE]

(***************************************************************************)
(* Registry methods, as functions from store to store                      *)
(***************************************************************************)
\* the new record given the status Ready instead of Offline
addPrinterAsReady(S, id) ==
    LET o == NewObj(S)
        a == NewArr(S)
        printer == [id |-> id, model |-> ConfigModel[id], status |-> READY,
                    statusHistory |-> <<>>,
                    errorCodes |-> a, lastErrorCode |-> Undefined]
    IN  saveToStorage(
        [S EXCEPT !.heap = [@ EXCEPT ![o] = printer],
                  !.arrays = [@ EXCEPT ![a] = <<>>],
                  !.printers = MapSet(@, id, o),
                  !.statusHistory = MapSet(@, id, <<>>)])

\* addPrinter without this.statusHistory.set(config.id, []) for an id that
\* has a history
addPrinterKeepsHistory(S, id) ==
    LET o == NewObj(S)
        a == NewArr(S)
        printer == [id |-> id, model |-> ConfigModel[id], status |-> OFFLINE,
                    statusHistory |-> <<>>,
                    errorCodes |-> a, lastErrorCode |-> Undefined]
    IN  saveToStorage(
        [S EXCEPT !.heap = [@ EXCEPT ![o] = printer],
                  !.arrays = [@ EXCEPT ![a] = <<>>],
                  !.printers = MapSet(@, id, o),
                  !.statusHistory = IF id \in DOMAIN @ THEN @ ELSE MapSet(@, id, <<>>)])

addPrinter(S, id) ==
    LET o == NewObj(S)
        a == NewArr(S)
        printer == [id |-> id, model |-> ConfigModel[id], status |-> OFFLINE,
                    statusHistory |-> <<>>,
                    errorCodes |-> a, lastErrorCode |-> Undefined]
    IN  saveToStorage(
        [S EXCEPT !.heap = [@ EXCEPT ![o] = printer],
                  !.arrays = [@ EXCEPT ![a] = <<>>],
                  !.printers = MapSet(@, id, o),
                  !.statusHistory = MapSet(@, id, <<>>)])

\* removePrinter without this.statusHistory.delete(id)
removePrinterKeepsHistory(S, id) ==
    saveToStorage([S EXCEPT !.printers = MapDelete(@, id)])

removePrinter(S, id) ==
    saveToStorage([S EXCEPT !.printers = MapDelete(@, id),
                            !.statusHistory = MapDelete(@, id)])

\* the splice taking the newest entries away instead of the oldest:
\* history.splice(50)
TrimHistoryKeepsOldest(history) ==
    IF Len(history) > HistoryLimit
    THEN SubSeq(history, 1, HistoryLimit)
    ELSE history

\* history.splice(0, history.length - 50) after the push
TrimHistory(history) ==
    IF Len(history) > HistoryLimit
    THEN SubSeq(history, Len(history) - HistoryLimit + 1, Len(history))
    ELSE history

\* history.unshift(entry) in place of history.push(entry): the new entry goes
\* to the front of the list
addStatusHistoryEntryUnshift(S, printerId, status, message, errorCode) ==
    LET old == IF printerId \in DOMAIN S.statusHistory
               THEN S.statusHistory[printerId] ELSE <<>>
        entry == [timestamp |-> now, status |-> status, message |-> message,
                  errorCode |-> errorCode]
        history == TrimHistory(<<entry>> \o old)
        S1 == [S EXCEPT !.statusHistory = MapSet(@, printerId, history)]
    IN  saveToStorage(
            IF printerId \in DOMAIN S1.printers
            THEN [S1 EXCEPT !.heap[S1.printers[printerId]].statusHistory = history]
            ELSE S1)

\* addStatusHistoryEntry pushing the entry onto the list of every device
addStatusHistoryEntryToAll(S, printerId, status, message, errorCode) ==
    LET entry == [timestamp |-> now, status |-> status, message |-> message,
                  errorCode |-> errorCode]
        S1 == [S EXCEPT !.statusHistory =
                  [d \in (DOMAIN @) \cup {printerId} |->
                      TrimHistory(Append(IF d \in DOMAIN @ THEN @[d] ELSE <<>>, entry))]]
    IN  saveToStorage(
            IF printerId \in DOMAIN S1.printers
            THEN [S1 EXCEPT !.heap[S1.printers[printerId]].statusHistory =
                                S1.statusHistory[printerId]]
            ELSE S1)

addStatusHistoryEntry(S, printerId, status, message, errorCode) ==
    LET old == IF printerId \in DOMAIN S.statusHistory
               THEN S.statusHistory[printerId] ELSE <<>>
        entry == [timestamp |-> now, status |-> status, message |-> message,
                  errorCode |-> errorCode]
        history == TrimHistory(Append(old, entry))
        S1 == [S EXCEPT !.statusHistory = MapSet(@, printerId, history)]
    IN  saveToStorage(
            IF printerId \in DOMAIN S1.printers
            THEN [S1 EXCEPT !.heap[S1.printers[printerId]].statusHistory = history]
            ELSE S1)

\* the find without its negation: e => e.code === code && e.resolved
HasResolved(arr, code) ==
    \E i \in 1..Len(arr) : arr[i].code = code /\ arr[i].resolved

\* printer.errorCodes.find(e => e.code === code && !e.resolved)
HasActive(arr, code) ==
    \E i \in 1..Len(arr) : arr[i].code = code /\ ~arr[i].resolved

\* the body of errorCodes.forEach, for the codes from index i on
RECURSIVE ProcessEach(_, _, _, _, _)
ProcessEach(S, p, codes, i, printerModel) ==
    IF i > Len(codes) THEN S
    ELSE LET code == codes[i]
             a == S.heap[p].errorCodes
         IN  IF HasActive(S.arrays[a], code)
             THEN ProcessEach(S, p, codes, i + 1, printerModel)
             ELSE ProcessEach(
                    [S EXCEPT !.arrays[a] = Append(@, newError(code, printerModel)),
                              !.heap[p].lastErrorCode = code],
                    p, codes, i + 1, printerModel)

processErrorCodes(S, printerId, message, printerModel) ==
    LET errorCodes == parseErrorFromText(message) IN
    IF printerId \notin DOMAIN S.printers \/ Len(errorCodes) = 0 THEN S
    ELSE saveToStorage(
            ProcessEach(S, S.printers[printerId], errorCodes, 1, printerModel))

\* an entry written when none is found: a call that finds no unresolved entry
\* for the code pushes a resolved one
resolveErrorCodeRecordsResolution(S, printerId, errorCode) ==
    IF printerId \notin DOMAIN S.printers THEN S
    ELSE LET a == S.heap[S.printers[printerId]].errorCodes
             arr == S.arrays[a]
             hits == {i \in 1..Len(arr) : arr[i].code = errorCode /\ ~arr[i].resolved}
         IN  IF hits = {}
             THEN saveToStorage([S EXCEPT !.arrays[a] =
                     Append(@, [newError(errorCode, <<>>) EXCEPT !.resolved = TRUE])])
             ELSE LET i == CHOOSE i \in hits : \A j \in hits : i <= j
                  IN  saveToStorage([S EXCEPT !.arrays[a][i].resolved = TRUE])

\* the entry's flag flipped instead of set: errorEntry.resolved = !errorEntry.resolved
\* on the first entry with the code
resolveErrorCodeToggles(S, printerId, errorCode) ==
    IF printerId \notin DOMAIN S.printers THEN S
    ELSE LET a == S.heap[S.printers[printerId]].errorCodes
             arr == S.arrays[a]
             hits == {i \in 1..Len(arr) : arr[i].code = errorCode}
         IN  IF hits = {} THEN S
             ELSE LET i == CHOOSE i \in hits : \A j \in hits : i <= j
                  IN  saveToStorage([S EXCEPT !.arrays[a][i].resolved = ~@])

resolveErrorCode(S, printerId, errorCode) ==
    IF printerId \notin DOMAIN S.printers THEN S
    ELSE LET a == S.heap[S.printers[printerId]].errorCodes
             arr == S.arrays[a]
             hits == {i \in 1..Len(arr) : arr[i].code = errorCode /\ ~arr[i].resolved}
         IN  IF hits = {} THEN S
             ELSE LET i == CHOOSE i \in hits : \A j \in hits : i <= j
                  IN  saveToStorage([S EXCEPT !.arrays[a][i].resolved = TRUE])

\* printer is the object the caller passed, by reference
updatePrinterStatus(S, printer, status, message) ==
    LET updatedPrinter == [S.heap[printer] EXCEPT !.status = status]
        id == S.heap[printer].id
        S1 == IF S.heap[printer].status # status
              THEN addStatusHistoryEntry(S, id, status, message, Undefined)
              ELSE S
        o == NewObj(S1)
    IN  saveToStorage([S1 EXCEPT !.heap = [@ EXCEPT ![o] = updatedPrinter],
                                 !.printers = MapSet(@, id, o)])

(***************************************************************************)
(* checkPrinterStatus: what runs once the probes and requests have         *)
(* answered.  Each function below is one synchronous stretch of the        *)
(* method, from the last await to its return.                              *)
(***************************************************************************)
\* lines 150-169: a status was obtained (from an endpoint or by default)
checkSucceeded(S, printer, statusData) ==
    LET updatedPrinter == [S.heap[printer] EXCEPT !.status = statusData.status]
        id == S.heap[printer].id
        S1 == IF S.heap[printer].status # statusData.status
              THEN addStatusHistoryEntry(S, id, statusData.status,
                                         statusData.message, statusData.errorCode)
              ELSE S
        S2 == IF statusData.message # Undefined
              THEN processErrorCodes(S1, id, statusData.message, S.heap[printer].model)
              ELSE S1
        o == NewObj(S2)
    IN  saveToStorage([S2 EXCEPT !.heap = [@ EXCEPT ![o] = updatedPrinter],
                                 !.printers = MapSet(@, id, o)])

\* lines 128-131: no probe technique got an answer
checkUnreachable(S, printer) ==
    updatePrinterStatus(S, printer, OFFLINE, NetworkUnreachable)

\* the fallback taking the device for unreachable
DefaultStatusDataOffline ==
    [status |-> OFFLINE, message |-> AssumingReady, errorCode |-> Undefined]

\* lines 140-148: reachable, but no endpoint gave a status
DefaultStatusData ==
    [status |-> READY, message |-> AssumingReady, errorCode |-> Undefined]

\* lines 171-176: the catch block
checkCaught(S, printer, error) ==
    LET errorMessage == ConnectionErrorPrefix \o error
        S1 == processErrorCodes(S, S.heap[printer].id, errorMessage,
                                S.heap[printer].model)
    IN  updatePrinterStatus(S1, printer, ERROR, errorMessage)

\* the catch block throwing the error on instead of returning
OutcomeWhenRethrown == "rejected"

\* how the promise of checkPrinterStatus settles when a step inside its try
\* block has thrown: the catch block returns a value
OutcomeWhenCaught == "fulfilled"

(***************************************************************************)
(* Calls in flight                                                         *)
(*                                                                         *)
(* The probes and requests of a check (pingPrinter, tryHttpStatusDetection,*)
(* trySnmpStatusDetection) read and write nothing of the service, so a     *)
(* check in flight is the object it was called with and nothing more; what *)
(* those awaits answered is an input of the step that ends the check.      *)
(***************************************************************************)
EmptyMap == [x \in {} |-> NullRef]
FreeCycle == [kind |-> "free", checks |-> EmptyMap, result |-> "none"]

\* one call of checkPrinterStatus: the object it was given, and how its
\* promise has settled
NewCheck(printer) == [printer |-> printer, path |-> "none", outcome |-> "pending"]
DoneCheck(path, outcome) == [printer |-> NullRef, path |-> path, outcome |-> outcome]

InFlight(c, d) ==
    /\ cycles[c].kind # "free"
    /\ d \in DOMAIN cycles[c].checks
    /\ cycles[c].checks[d].outcome = "pending"

\* a combinator that settles with the first promise fulfilled (Promise.any)
PromiseAny(checks) ==
    IF \E d \in DOMAIN checks : checks[d].outcome = "fulfilled" THEN "fulfilled"
    ELSE IF \A d \in DOMAIN checks : checks[d].outcome = "rejected" THEN "rejected"
    ELSE "pending"

\* Promise.all(promises)
PromiseAll(checks) ==
    IF \E d \in DOMAIN checks : checks[d].outcome = "rejected" THEN "rejected"
    ELSE IF \A d \in DOMAIN checks : checks[d].outcome = "fulfilled" THEN "fulfilled"
    ELSE "pending"

\* checkAllPrinters, lines 746-751: a rejection is caught and the list returned
CheckAllResult(checks) ==
    IF PromiseAll(checks) = "pending" THEN "pending" ELSE "fulfilled"

\* how the promise of a call has settled: checkPrinterStatus called alone
\* settles as its check does, checkAllPrinters as above
CycleResult(kind, checks) ==
    IF kind = "single"
    THEN checks[CHOOSE d \in DOMAIN checks : TRUE].outcome
    ELSE CheckAllResult(checks)

\* the references held by the Map and by the checks that have not returned,
\* in a fixed order: the Map's by device, then each call's by device
RootSeq(prs, cyc) ==
    [i \in 1..(Len(DevSeq) * (MaxCycles + 1)) |->
        LET k == (i - 1) \div Len(DevSeq)
            d == DevSeq[((i - 1) % Len(DevSeq)) + 1]
        IN  IF k = 0
            THEN IF d \in DOMAIN prs THEN prs[d] ELSE NullRef
            ELSE IF d \in DOMAIN cyc[k].checks
                 THEN cyc[k].checks[d].printer ELSE NullRef]

\* index of the first occurrence of r in seq
FirstAt(seq, r) ==
    CHOOSE i \in DOMAIN seq : seq[i] = r /\ \A j \in DOMAIN seq : j < i => seq[j] # r

\* Write a store back.  References are opaque to the program, so the objects
\* and arrays still referenced are stored in the order in which RootSeq meets
\* them, and the slots of those nothing references any more are freed.
Commit(S, cyc) ==
    \E roots \in {RootSeq(S.printers, cyc)} :
    \E live \in {{roots[i] : i \in DOMAIN roots} \ {NullRef}} :
    \E obj \in {[r \in live |->
                  Cardinality({q \in live : FirstAt(roots, q) <= FirstAt(roots, r)})]} :
    \E used \in {{S.heap[r].errorCodes : r \in live}} :
    \E firstUse \in {[a \in used |->
                  CHOOSE n \in {obj[r] : r \in live} :
                      /\ \E r \in live : obj[r] = n /\ S.heap[r].errorCodes = a
                      /\ \A r \in live : S.heap[r].errorCodes = a => n <= obj[r]]} :
    \E arr \in {[a \in used |->
                  Cardinality({b \in used : firstUse[b] <= firstUse[a]})]} :
        /\ printers' = [d \in DOMAIN S.printers |-> obj[S.printers[d]]]
        /\ statusHistory' = S.statusHistory
        /\ storage' = S.storage
        /\ now' = now
        /\ heap' = [n \in ObjRefs |->
                      IF \E r \in live : obj[r] = n
                      THEN LET r == CHOOSE r \in live : obj[r] = n
                           IN  [S.heap[r] EXCEPT !.errorCodes = arr[@]]
                      ELSE NoObj]
        /\ arrays' = [n \in ArrRefs |->
                      IF \E a \in used : arr[a] = n
                      THEN S.arrays[CHOOSE a \in used : arr[a] = n]
                      ELSE <<>>]
        /\ cycles' = [c \in CycleIds |->
                      [cyc[c] EXCEPT !.checks =
                          [d \in DOMAIN cyc[c].checks |->
                              IF cyc[c].checks[d].printer = NullRef
                              THEN cyc[c].checks[d]
                              ELSE [cyc[c].checks[d] EXCEPT !.printer = obj[@]]]]]

\* a stretch of the service's code runs to its end as one step: it leaves the
\* store S and the calls in flight cyc
Run(S, cyc) == \E T \in {S} : \E k \in {cyc} : Commit(T, k)

Min(a, b) == IF a < b THEN a ELSE b

\* what `last` records of a step: the operation and its arguments (id, code;
\* for the end of a check, code is the errorCode of the status data);
\* for the end of a check the way the check went (path), the text it got with
\* it (the message of the status data, or the exception's text), the status it
\* arrived at, how its promise settled (outcome), the call it belonged to
\* (kind) and how that call has settled (result)
NoLast == [op |-> "none", id |-> "", code |-> Undefined, text |-> Undefined,
           path |-> "none", status |-> "none", outcome |-> "none",
           kind |-> "none", result |-> "none"]
LastOp(op, id) == [NoLast EXCEPT !.op = op, !.id = id]

\* no call of tryHttpStatusDetection, no call of a text function under study
NoFetch == [state |-> "none", model |-> Undefined, endpoints |-> <<>>,
            requests |-> <<>>, response |-> "none", statusData |-> Null,
            result |-> Null]
NoCall == [fn |-> "none"]
\* no call of pingPrinter
NoPing == [state |-> "none", tried |-> <<>>, signals |-> <<>>, result |-> FALSE]

(***************************************************************************)
(* Operations                                                              *)
(***************************************************************************)
\* new PrinterService(): empty maps, no timer, nothing in flight
Constructed ==
    /\ printers = EmptyMap
    /\ statusHistory = EmptyMap
    /\ monitoringInterval = NullRef
    /\ heap = [r \in ObjRefs |-> NoObj]
    /\ arrays = [a \in ArrRefs |-> <<>>]
    /\ timers = {}
    /\ cycles = [c \in CycleIds |-> FreeCycle]
    /\ started = 0
    /\ last = NoLast
    /\ storage = NoStorage
    /\ now = 0

Init ==
    /\ Constructed
    /\ fetch = NoFetch
    /\ call = NoCall
    /\ ping = NoPing

\* AddDevice(config)
AddPrinter(id) ==
    /\ Run(addPrinter(Store, id), cycles)
    /\ last' = LastOp("addPrinter", id)
    /\ UNCHANGED <<monitoringInterval, timers, started, fetch, call, ping>>

\* RemoveDevice(id)
RemovePrinter(id) ==
    /\ Run(removePrinter(Store, id), cycles)
    /\ last' = LastOp("removePrinter", id)
    /\ UNCHANGED <<monitoringInterval, timers, started, fetch, call, ping>>

\* ResolveError(id, code)
ResolveErrorCode(id, code) ==
    /\ Run(resolveErrorCode(Store, id, code), cycles)
    /\ last' = [LastOp("resolveErrorCode", id) EXCEPT
                  !.code = code,
                  !.path = IF resolveErrorCode(Store, id, code) = Store
                           THEN "none" ELSE "resolved"]
    /\ UNCHANGED <<monitoringInterval, timers, started, fetch, call, ping>>

\* the page is loaded again: a new PrinterService() whose constructor runs
\* loadFromStorage; the calls in flight and the timers of the page before are
\* gone with it
Reload ==
    /\ Run(loadFromStorage([printers |-> EmptyMap, statusHistory |-> EmptyMap,
                            heap |-> [r \in ObjRefs |-> NoObj],
                            arrays |-> [a \in ArrRefs |-> <<>>],
                            storage |-> storage]),
           [c \in CycleIds |-> FreeCycle])
    /\ monitoringInterval' = NullRef
    /\ timers' = {}
    /\ last' = LastOp("loadFromStorage", "")
    /\ UNCHANGED <<started, fetch, call, ping>>

\* a call takes the lowest slot of cycles that is free
FreeSlot(c) ==
    /\ cycles[c].kind = "free"
    /\ \A b \in CycleIds : b < c => cycles[b].kind # "free"

\* the calls printers.map(printer => this.checkPrinterStatus(printer)) makes:
\* each runs up to its first await, holding the object the Map held.  With no
\* device registered the call settles at once.
StartAll(c, kind) ==
    LET checks == [d \in DOMAIN printers |-> NewCheck(printers[d])] IN
    /\ FreeSlot(c)
    /\ cycles' = [cycles EXCEPT ![c] =
                    IF DOMAIN printers = {} THEN FreeCycle
                    ELSE [kind |-> kind, checks |-> checks, result |-> "pending"]]
    /\ started' = Min(started + Cardinality(DOMAIN printers), CheckCap)
    /\ UNCHANGED <<printers, statusHistory, heap, arrays, storage, now>>

\* CheckAllDevices()
CheckAllPrinters(c) ==
    /\ StartAll(c, "all")
    /\ last' = [LastOp("checkAllPrinters", "") EXCEPT
                  !.kind = "all", !.result = CheckAllResult(cycles'[c].checks)]
    /\ UNCHANGED <<monitoringInterval, timers, fetch, call, ping>>

\* CheckDevice(id): the caller passes getPrinter(id)
CheckPrinterStatus(c, id) ==
    LET checks == [d \in {id} |-> NewCheck(printers[d])] IN
    /\ id \in DOMAIN printers
    /\ FreeSlot(c)
    /\ cycles' = [cycles EXCEPT ![c] = [kind |-> "single", checks |-> checks,
                                        result |-> "pending"]]
    /\ started' = Min(started + 1, CheckCap)
    /\ last' = [LastOp("checkPrinterStatus", id) EXCEPT
                  !.kind = "single", !.result = "pending"]
    /\ UNCHANGED <<printers, statusHistory, heap, arrays, storage, now, monitoringInterval, timers, fetch, call, ping>>

\* startMonitoring without the clearInterval of lines 755-757
StartMonitoringKeepsTimer ==
    LET handle == CHOOSE t \in TimerIds :
                    t \notin timers /\ \A u \in TimerIds : u < t => u \in timers
    IN  /\ timers # TimerIds
        /\ timers' = timers \cup {handle}
        /\ monitoringInterval' = handle
        /\ last' = [LastOp("startMonitoring", "") EXCEPT
                      !.path = IF monitoringInterval # NullRef
                               THEN "restarted" ELSE "started"]
        /\ UNCHANGED <<printers, statusHistory, heap, arrays, storage, now, cycles, started, fetch, call, ping>>

\* StartMonitoring(intervalMs)
StartMonitoring ==
    LET cleared == IF monitoringInterval # NullRef
                   THEN timers \ {monitoringInterval} ELSE timers
        handle == CHOOSE t \in TimerIds :
                    t \notin cleared /\ \A u \in TimerIds : u < t => u \in cleared
    IN  /\ timers' = cleared \cup {handle}
        /\ monitoringInterval' = handle
        /\ last' = [LastOp("startMonitoring", "") EXCEPT
                      !.path = IF monitoringInterval # NullRef
                               THEN "restarted" ELSE "started"]
        /\ UNCHANGED <<printers, statusHistory, heap, arrays, storage, now, cycles, started, fetch, call, ping>>

\* stopMonitoring without the assignment of null (line 770)
StopMonitoringKeepsHandle ==
    /\ IF monitoringInterval # NullRef
       THEN /\ timers' = timers \ {monitoringInterval}
            /\ monitoringInterval' = monitoringInterval
       ELSE UNCHANGED <<timers, monitoringInterval>>
    /\ last' = [LastOp("stopMonitoring", "") EXCEPT
                  !.path = IF monitoringInterval # NullRef THEN "stopped" ELSE "idle"]
    /\ UNCHANGED <<printers, statusHistory, heap, arrays, storage, now, cycles, started, fetch, call, ping>>

\* stopMonitoring without clearInterval (line 769): the handle is forgotten,
\* the timer stays
StopMonitoringLeavesTimer ==
    /\ monitoringInterval' = NullRef
    /\ timers' = timers
    /\ last' = [LastOp("stopMonitoring", "") EXCEPT
                  !.path = IF monitoringInterval # NullRef THEN "stopped" ELSE "idle"]
    /\ UNCHANGED <<printers, statusHistory, heap, arrays, storage, now, cycles, started, fetch, call, ping>>

\* StopMonitoring()
StopMonitoring ==
    /\ IF monitoringInterval # NullRef
       THEN /\ timers' = timers \ {monitoringInterval}
            /\ monitoringInterval' = NullRef
       ELSE UNCHANGED <<timers, monitoringInterval>>
    /\ last' = [LastOp("stopMonitoring", "") EXCEPT
                  !.path = IF monitoringInterval # NullRef THEN "stopped" ELSE "idle"]
    /\ UNCHANGED <<printers, statusHistory, heap, arrays, storage, now, cycles, started, fetch, call, ping>>

\* a scheduler that waits for its cycle: the callback fires only when no
\* call started by a tick is in flight
TickAfterCycle(t, c) ==
    /\ t \in timers
    /\ \A b \in CycleIds : cycles[b].kind # "tick"
    /\ IF Cardinality(DOMAIN printers) > 0
       THEN StartAll(c, "tick")
       ELSE UNCHANGED <<printers, statusHistory, heap, arrays, storage, now, cycles, started>>
    /\ last' = [LastOp("tick", "") EXCEPT !.kind = "tick"]
    /\ UNCHANGED <<monitoringInterval, timers, fetch, call, ping>>

\* the interval callback of timer t fires
Tick(t, c) ==
    /\ t \in timers
    /\ IF Cardinality(DOMAIN printers) > 0
       THEN StartAll(c, "tick")
       ELSE UNCHANGED <<printers, statusHistory, heap, arrays, storage, now, cycles, started>>
    /\ last' = [LastOp("tick", "") EXCEPT !.kind = "tick"]
    /\ UNCHANGED <<monitoringInterval, timers, fetch, call, ping>>

\* Promise.race in place of Promise.all: the call is over with the first check
\* that returns, and the checks still in flight are dropped with it
SettleFirst(c, d, path, outcome) ==
    [cycles EXCEPT ![c] = FreeCycle]

\* the check of d in call c returns with outcome: its promise settles, the
\* call's promise settles if it had not and now can, and the call leaves
\* cycles once none of its checks is in flight
Settle(c, d, path, outcome) ==
    LET checks == [cycles[c].checks EXCEPT ![d] = DoneCheck(path, outcome)]
        result == IF cycles[c].result # "pending" THEN cycles[c].result
                  ELSE CycleResult(cycles[c].kind, checks)
    IN  [cycles EXCEPT ![c] =
            IF \A e \in DOMAIN checks : checks[e].outcome # "pending"
            THEN FreeCycle
            ELSE [@ EXCEPT !.checks = checks, !.result = result]]

\* the end of the check of d in call c, as `last` records it
LastCheck(c, d, path, text, status, outcome) ==
    LET checks == [cycles[c].checks EXCEPT ![d] = DoneCheck(path, outcome)] IN
    [LastOp("checkReturn", d) EXCEPT
        !.path = path, !.text = text, !.status = status,
        !.outcome = outcome, !.kind = cycles[c].kind,
        !.result = IF cycles[c].result # "pending" THEN cycles[c].result
                   ELSE CycleResult(cycles[c].kind, checks)]

\* pingPrinter answered false
CheckUnreachable(c, d) ==
    /\ InFlight(c, d)
    /\ Run(checkUnreachable(Store, cycles[c].checks[d].printer),
           Settle(c, d, "unreachable", "fulfilled"))
    /\ last' = LastCheck(c, d, "unreachable", Undefined, OFFLINE, "fulfilled")
    /\ UNCHANGED <<monitoringInterval, timers, started, fetch, call, ping>>

\* pingPrinter answered true and an endpoint's response was parsed into
\* statusData
CheckStatus(c, d, statusData) ==
    /\ InFlight(c, d)
    /\ Run(checkSucceeded(Store, cycles[c].checks[d].printer, statusData),
           Settle(c, d, "status", "fulfilled"))
    /\ last' = [LastCheck(c, d, "status", statusData.message, statusData.status,
                          "fulfilled") EXCEPT !.code = statusData.errorCode]
    /\ UNCHANGED <<monitoringInterval, timers, started, fetch, call, ping>>

\* pingPrinter answered true; tryHttpStatusDetection and
\* trySnmpStatusDetection both gave null
CheckExhausted(c, d) ==
    /\ InFlight(c, d)
    /\ Run(checkSucceeded(Store, cycles[c].checks[d].printer, DefaultStatusData),
           Settle(c, d, "exhausted", "fulfilled"))
    /\ last' = LastCheck(c, d, "exhausted", DefaultStatusData.message,
                         DefaultStatusData.status, "fulfilled")
    /\ UNCHANGED <<monitoringInterval, timers, started, fetch, call, ping>>

\* pingPrinter answered true and a later step inside the try block threw error
CheckThrows(c, d, error) ==
    /\ InFlight(c, d)
    /\ Run(checkCaught(Store, cycles[c].checks[d].printer, error),
           Settle(c, d, "exception", OutcomeWhenCaught))
    /\ last' = LastCheck(c, d, "exception", error, ERROR, OutcomeWhenCaught)
    /\ UNCHANGED <<monitoringInterval, timers, started, fetch, call, ping>>

(***************************************************************************)
(* Specifications                                                          *)
(***************************************************************************)
\* The service with one device: every operation, calls in flight together,
\* the scheduler.
OneDev == {DevSeq[1]}

Next ==
    \/ \E id \in OneDev : AddPrinter(id)
    \/ \E id \in OneDev : RemovePrinter(id)
    \/ \E id \in OneDev, code \in ResolveCodes : ResolveErrorCode(id, code)
    \/ \E c \in CycleIds :
         started + Cardinality(DOMAIN printers) <= MaxChecks /\ CheckAllPrinters(c)
    \/ \E c \in CycleIds, id \in OneDev :
         started < MaxChecks /\ CheckPrinterStatus(c, id)
    \/ StartMonitoring
    \/ StopMonitoring
    \/ \E t \in TimerIds, c \in CycleIds :
         started + Cardinality(DOMAIN printers) <= MaxChecks /\ Tick(t, c)
    \/ \E c \in CycleIds, d \in OneDev : CheckUnreachable(c, d)
    \/ \E c \in CycleIds, d \in OneDev, sd \in FetchResults : CheckStatus(c, d, sd)
    \/ \E c \in CycleIds, d \in OneDev : CheckExhausted(c, d)
    \/ \E c \in CycleIds, d \in OneDev, e \in Exceptions : CheckThrows(c, d, e)

Spec == Init /\ [][Next]_vars

\* The service with several devices and one call of checkAllPrinters or
\* checkPrinterStatus at a time.
NextFleet ==
    \/ \E id \in DevIds : AddPrinter(id)
    \/ \E id \in DevIds : RemovePrinter(id)
    \/ \E id \in DevIds, code \in ResolveCodes : ResolveErrorCode(id, code)
    \/ started + Cardinality(DOMAIN printers) <= MaxFleetChecks /\ CheckAllPrinters(1)
    \/ \E id \in DevIds : started < MaxFleetChecks /\ CheckPrinterStatus(1, id)
    \/ \E d \in DevIds : CheckUnreachable(1, d)
    \/ \E d \in DevIds, sd \in FetchResults : CheckStatus(1, d, sd)
    \/ \E d \in DevIds : CheckExhausted(1, d)
    \/ \E d \in DevIds, e \in Exceptions : CheckThrows(1, d, e)

SpecFleet == Init /\ [][NextFleet]_vars

\* The operations one after the other on one device, each check returning
\* before the next operation starts, for as long as one likes: the device goes
\* offline and comes back.
Idle == \A c \in CycleIds : cycles[c].kind = "free"

NextSerial ==
    \/ \E id \in OneDev : Idle /\ AddPrinter(id)
    \/ \E id \in OneDev : Idle /\ RemovePrinter(id)
    \/ \E id \in OneDev, code \in ResolveCodes : Idle /\ ResolveErrorCode(id, code)
    \/ Idle /\ CheckAllPrinters(1)
    \/ \E id \in OneDev : Idle /\ CheckPrinterStatus(1, id)
    \/ \E d \in OneDev : CheckUnreachable(1, d)
    \/ \E d \in OneDev : CheckExhausted(1, d)

SpecSerial == Init /\ [][NextSerial]_vars

\* The fleet, and the page loaded again at any moment.
NextStore ==
    \/ NextFleet
    \/ Reload

SpecStore == Init /\ [][NextStore]_vars

(***************************************************************************)
(* Views of the state, for stating properties                              *)
(***************************************************************************)
\* the status and the errorCodes array of the record the Map holds for d
Status(d) == heap[printers[d]].status
Ledger(d) == arrays[heap[printers[d]].errorCodes]
\* the history list of d, the empty list if there is none
History(d) == IF d \in DOMAIN statusHistory THEN statusHistory[d] ELSE <<>>
\* this step is the return of the check of d in call c
Returns(c, d) ==
    /\ InFlight(c, d)
    /\ ~(/\ cycles'[c].kind # "free"
         /\ d \in DOMAIN cycles'[c].checks
         /\ cycles'[c].checks[d].outcome = "pending")
\* the object the check of d in call c was called with
Given(c, d) == heap[cycles[c].checks[d].printer]
\* the text a returned check handed to processErrorCodes
ObservedText(l) ==
    IF l.path = "exception" THEN ConnectionErrorPrefix \o l.text ELSE l.text
\* the entries of a ledger for one code
EntriesOf(arr, code) == SelectSeq(arr, LAMBDA e : e.code = code)
\* the codes of a sequence of codes
CodeSet(codes) == {codes[i] : i \in 1..Len(codes)}

(***************************************************************************)
(* C1                                                                      *)
(***************************************************************************)
\* C1: in every reachable state, also one reached while two checks of a
\* device overlapped, no two adjacent entries of a device's history have the
\* same status.
C1_NoAdjacentRepeat ==
    \A d \in DOMAIN statusHistory :
        \A i \in 1..(Len(statusHistory[d]) - 1) :
            statusHistory[d][i].status # statusHistory[d][i + 1].status

(***************************************************************************)
(* C2                                                                      *)
(***************************************************************************)
\* C2: a device's history never holds more than 50 entries, and an append
\* that would exceed 50 drops exactly the oldest entries: after a check that
\* changed the status, the history is the entries it had, oldest first and
\* without the oldest one if there were 50, followed by the new entry.
C2_HistoryBounded ==
    /\ [](/\ \A d \in DOMAIN statusHistory : Len(statusHistory[d]) <= 50
          /\ \A d \in DOMAIN printers :
                Len(heap[printers[d]].statusHistory) <= 50)
    /\ [][\A c \in CycleIds, d \in DevIds :
            (Returns(c, d) /\ Given(c, d).status # last'.status) =>
                LET h == History(d)
                    h2 == statusHistory'[d]
                    n == Min(Len(h) + 1, 50)
                IN  /\ Len(h2) = n
                    /\ \A i \in 1..(n - 1) : h2[i] = h[Len(h) - (n - 1) + i]
                    /\ h2[n].status = last'.status]_vars

\* a history of 50 entries whose oldest entry is not the first one recorded
\* (the first status change of a new device cannot be to Offline)
C2_Witness ==
    /\ last.op = "checkReturn"
    /\ Len(History(last.id)) = 50
    /\ History(last.id)[1].status = OFFLINE
    /\ History(last.id)[50].status = last.status

(***************************************************************************)
(* C3                                                                      *)
(***************************************************************************)
\* C3: no errorCodes array ever holds two unresolved entries with the same
\* code; and a check that observes a code which has an unresolved entry in
\* the device's ledger leaves the ledger's entries for that code as they were.
C3_OneUnresolvedPerCode ==
    /\ [](\A a \in ArrRefs : \A i, j \in 1..Len(arrays[a]) :
            (/\ arrays[a][i].code = arrays[a][j].code
             /\ ~arrays[a][i].resolved
             /\ ~arrays[a][j].resolved) => i = j)
    /\ [][\A c \in CycleIds, d \in DevIds :
            (/\ Returns(c, d)
             /\ d \in DOMAIN printers
             /\ heap[printers[d]].errorCodes = Given(c, d).errorCodes
             /\ last'.text # Undefined) =>
                \A code \in CodeSet(parseErrorFromText(ObservedText(last'))) :
                    (\E i \in 1..Len(Ledger(d)) :
                        Ledger(d)[i].code = code /\ ~Ledger(d)[i].resolved)
                    => EntriesOf(Ledger(d)', code) = EntriesOf(Ledger(d), code)]_vars

\* a check that found the paper jam with code E-01 has returned for a device
\* whose failed check had recorded E-01 before: the ledger has the one entry
C3_Witness ==
    /\ last.op = "checkReturn"
    /\ last.path = "status"
    /\ <<"E","-","0","1">> \in CodeSet(parseErrorFromText(last.text))
    /\ Len(History(last.id)) = 2
    /\ History(last.id)[1].status = ERROR
    /\ History(last.id)[2].status = PAPER_JAM
    /\ Len(Ledger(last.id)) = 1
    /\ Ledger(last.id)[1].code = <<"E","-","0","1">>
    /\ ~Ledger(last.id)[1].resolved

(***************************************************************************)
(* C4                                                                      *)
(***************************************************************************)
\* C4: operations on one device take effect one at a time: no check writes
\* its result on top of a stale copy of the record, that is, when a check
\* returns, the object it was called with has the contents of the record the
\* registry holds for the device at that moment.
C4_NoStaleUpdate ==
    [][\A c \in CycleIds, d \in DevIds :
         Returns(c, d) =>
            /\ d \in DOMAIN printers
            /\ Given(c, d) = heap[printers[d]]]_vars

(***************************************************************************)
(* C5                                                                      *)
(***************************************************************************)
\* C5: at most one check per device is in flight at any time.
C5_OneCheckInFlight ==
    \A d \in DevIds : Cardinality({c \in CycleIds : InFlight(c, d)}) <= 1

(***************************************************************************)
(* C6                                                                      *)
(***************************************************************************)
\* C6 (as stated): when the first check of a device (the only check started
\* so far) finds it unreachable, the device is Offline and its history is the
\* one entry (Offline, 'Network unreachable').
C6_FirstCheckUnreachable ==
    (last.op = "checkReturn" /\ last.path = "unreachable" /\ started = 1) =>
        /\ last.id \in DOMAIN printers
        /\ Status(last.id) = OFFLINE
        /\ History(last.id) = <<[timestamp |-> now, status |-> OFFLINE,
                                 message |-> NetworkUnreachable,
                                 errorCode |-> Undefined]>>

\* C6 (amended): when the first check of a device (the only check started so
\* far) finds it unreachable, the device is Offline and no entry is appended:
\* the device was registered as Offline, the status has not changed, and the
\* history is still empty.
C6_FirstCheckNoEntry ==
    (last.op = "checkReturn" /\ last.path = "unreachable" /\ started = 1) =>
        /\ last.id \in DOMAIN printers
        /\ Status(last.id) = OFFLINE
        /\ History(last.id) = <<>>
        /\ heap[printers[last.id]].statusHistory = <<>>

\* the first check of a registered device has returned: unreachable
C6_Witness ==
    /\ last.op = "checkReturn"
    /\ last.path = "unreachable"
    /\ started = 1
    /\ last.id \in DOMAIN printers
    /\ last.id \in DOMAIN statusHistory
    /\ statusHistory[last.id] = <<>>
    /\ Status(last.id) = OFFLINE

FailedPaths == {"unreachable", "exhausted", "exception"}

\* C8: in a call of checkAllPrinters, when the check of one device has failed
\* while checks of the call were still to return, those checks are still in
\* flight and each can return; and a check that returns while a check of its
\* call has failed writes the status it found to the registry.
C8_OthersStillComplete ==
    /\ [](/\ (/\ last.op = "checkReturn"
              /\ last.kind = "all"
              /\ last.path \in FailedPaths
              /\ last.result = "pending") =>
                \E c \in CycleIds, e \in DevIds \ {last.id} :
                    /\ InFlight(c, e)
                    /\ cycles[c].checks[last.id].path = last.path
          /\ \A c \in CycleIds, e \in DevIds :
                InFlight(c, e) =>
                    /\ ENABLED CheckUnreachable(c, e)
                    /\ ENABLED CheckExhausted(c, e)
                    /\ \A sd \in FetchResults : ENABLED CheckStatus(c, e, sd))
    /\ [][\A c \in CycleIds, d \in DevIds :
            (/\ Returns(c, d)
             /\ cycles[c].kind = "all"
             /\ \E e \in DOMAIN cycles[c].checks \ {d} :
                    cycles[c].checks[e].path \in FailedPaths) =>
                /\ d \in DOMAIN printers'
                /\ heap'[printers'[d]].status = last'.status
                /\ last'.outcome = "fulfilled"]_vars

\* the check of the second device has returned with a paper jam, after the
\* check of the first device in the same call had thrown
C8_Witness ==
    /\ last.op = "checkReturn"
    /\ last.kind = "all"
    /\ last.id = DevSeq[2]
    /\ last.path = "status"
    /\ DevSeq[1] \in DOMAIN printers
    /\ DevSeq[2] \in DOMAIN printers
    /\ Status(DevSeq[1]) = ERROR
    /\ Status(DevSeq[2]) = PAPER_JAM
    /\ History(DevSeq[2]) # <<>>

(***************************************************************************)
(* C9                                                                      *)
(***************************************************************************)
\* the number of resolved entries for a code
ResolvedCount(arr, code) ==
    Len(SelectSeq(arr, LAMBDA e : e.code = code /\ e.resolved))

\* C9 (as stated): after resolveErrorCode(id, code) has marked an entry, a
\* second call changes nothing, and the ledger has exactly one resolved entry
\* and no unresolved entry for the code.
C9_ExactlyOneResolved ==
    (last.op = "resolveErrorCode" /\ last.path = "resolved") =>
        /\ resolveErrorCode(Store, last.id, last.code) = Store
        /\ ~HasActive(Ledger(last.id), last.code)
        /\ ResolvedCount(Ledger(last.id), last.code) = 1

\* C9 (amended): after resolveErrorCode(id, code), a second call changes
\* nothing and the ledger has no unresolved entry for the code; if the first
\* call marked an entry, the ledger has at least one resolved entry for the
\* code (more than one when the code had been observed and resolved before).
C9_ResolveTwice ==
    (last.op = "resolveErrorCode" /\ last.id \in DOMAIN printers) =>
        /\ resolveErrorCode(Store, last.id, last.code) = Store
        /\ ~\E i \in 1..Len(Ledger(last.id)) :
              /\ Ledger(last.id)[i].code = last.code
              /\ ~Ledger(last.id)[i].resolved
        /\ last.path = "resolved" => ResolvedCount(Ledger(last.id), last.code) >= 1

\* a second resolution of a code: two resolved entries
C9_Witness ==
    /\ last.op = "resolveErrorCode"
    /\ last.path = "resolved"
    /\ ResolvedCount(Ledger(last.id), last.code) = 2

(***************************************************************************)
(* C10                                                                     *)
(***************************************************************************)
\* C10: while a device exists (the step is not its registration), an entry
\* of its ledger that is resolved stays in the ledger, at its place, resolved.
C10_ResolvedStays ==
    [][\A d \in DOMAIN printers \cap DOMAIN printers' :
         ~(last'.op = "addPrinter" /\ last'.id = d) =>
            \A i \in 1..Len(Ledger(d)) :
                Ledger(d)[i].resolved =>
                    /\ Len(Ledger(d)') >= i
                    /\ Ledger(d)'[i] = Ledger(d)[i]]_vars

(***************************************************************************)
(* C11                                                                     *)
(***************************************************************************)
\* C11: two cycles started by scheduler ticks are never in flight at the
\* same time: a tick's cycle is over before the next tick starts one.
C11_OneTickCycle ==
    Cardinality({c \in CycleIds : cycles[c].kind = "tick"}) <= 1

(***************************************************************************)
(* C12                                                                     *)
(***************************************************************************)
\* C12: after any sequence of startMonitoring and stopMonitoring there is at
\* most one installed timer, the one of the most recent start, and only that
\* timer can tick.
C12_OneTimer ==
    /\ Cardinality(timers) <= 1
    /\ timers = IF monitoringInterval = NullRef THEN {} ELSE {monitoringInterval}
    /\ \A t \in TimerIds, c \in CycleIds :
          (ENABLED Tick(t, c)) => t = monitoringInterval

\* startMonitoring was called while a timer was running, and one timer is left
C12_Witness ==
    /\ last.op = "startMonitoring"
    /\ last.path = "restarted"
    /\ Cardinality(timers) = 1
    /\ monitoringInterval \in timers

mapStatusToEnumCartridgeFirst(statusString) ==
    LET status == toLowerCase(statusString) IN
    IF includes(status, <<"r","e","a","d","y">>) \/ includes(status, <<"i","d","l","e">>) THEN READY
    ELSE IF includes(status, <<"p","r","i","n","t","i","n","g">>) \/ includes(status, <<"b","u","s","y">>) THEN PRINTING
    ELSE IF includes(status, <<"p","a","p","e","r">>) /\ includes(status, <<"j","a","m">>) THEN PAPER_JAM
    ELSE IF includes(status, <<"p","a","p","e","r">>)
            /\ (includes(status, <<"o","u","t">>) \/ includes(status, <<"e","m","p","t","y">>)) THEN PAPER_OUT
    ELSE IF includes(status, <<"p","a","p","e","r">>) /\ includes(status, <<"l","o","a","d">>) THEN LOADING_PAPER
    ELSE IF includes(status, <<"c","a","r","t","r","i","d","g","e">>) THEN CARTRIDGE_ISSUE
    ELSE IF includes(status, <<"i","n","k">>) \/ includes(status, <<"t","o","n","e","r">>) THEN LOW_INK
    ELSE IF includes(status, <<"m","a","i","n","t","e","n","a","n","c","e">>) THEN MAINTENANCE_REQUIRED
    ELSE IF includes(status, <<"o","f","f","l","i","n","e">>) \/ includes(status, <<"d","i","s","c","o","n","n","e","c","t","e","d">>) THEN OFFLINE
    ELSE IF includes(status, <<"e","r","r","o","r">>) \/ includes(status, <<"f","a","u","l","t">>) THEN ERROR
    ELSE READY

\* mapStatusToEnum(statusString)
mapStatusToEnum(statusString) ==
    LET status == toLowerCase(statusString) IN
    IF includes(status, <<"r","e","a","d","y">>) \/ includes(status, <<"i","d","l","e">>) THEN READY
    ELSE IF includes(status, <<"p","r","i","n","t","i","n","g">>) \/ includes(status, <<"b","u","s","y">>) THEN PRINTING
    ELSE IF includes(status, <<"p","a","p","e","r">>) /\ includes(status, <<"j","a","m">>) THEN PAPER_JAM
    ELSE IF includes(status, <<"p","a","p","e","r">>)
            /\ (includes(status, <<"o","u","t">>) \/ includes(status, <<"e","m","p","t","y">>)) THEN PAPER_OUT
    ELSE IF includes(status, <<"p","a","p","e","r">>) /\ includes(status, <<"l","o","a","d">>) THEN LOADING_PAPER
    ELSE IF includes(status, <<"i","n","k">>) \/ includes(status, <<"t","o","n","e","r">>) THEN LOW_INK
    ELSE IF includes(status, <<"c","a","r","t","r","i","d","g","e">>) THEN CARTRIDGE_ISSUE
    ELSE IF includes(status, <<"m","a","i","n","t","e","n","a","n","c","e">>) THEN MAINTENANCE_REQUIRED
    ELSE IF includes(status, <<"o","f","f","l","i","n","e">>) \/ includes(status, <<"d","i","s","c","o","n","n","e","c","t","e","d">>) THEN OFFLINE
    ELSE IF includes(status, <<"e","r","r","o","r">>) \/ includes(status, <<"f","a","u","l","t">>) THEN ERROR
    ELSE READY


(***************************************************************************)
(* Status detection: the payload parsers                                   *)
(***************************************************************************)
\* obj.field of a parsed JSON object (a function from field names); a field
\* that is absent reads as undefined
Get(obj, field) == IF field \in DOMAIN obj THEN obj[field] ELSE Undefined
\* a || b || c on texts: the first that is not empty
Or3(a, b, c) == IF a # Undefined THEN a ELSE IF b # Undefined THEN b ELSE c

\* (alert.message || alert.text || alert.description || '').toLowerCase()
alertText(alert) ==
    toLowerCase(Or3(Get(alert, "message"), Get(alert, "text"), Get(alert, "description")))

\* the override loop of parseJsonStatus without its break statements
RECURSIVE jsonOverrideNoBreak(_, _, _)
jsonOverrideNoBreak(alerts, i, detectedStatus) ==
    IF i > Len(alerts) THEN detectedStatus
    ELSE LET t == alertText(alerts[i]) IN
         jsonOverrideNoBreak(alerts, i + 1,
            IF includes(t, <<"p","a","p","e","r"," ","j","a","m">>) \/ includes(t, <<"j","a","m">>) THEN PAPER_JAM
            ELSE IF includes(t, <<"l","o","a","d"," ","p","a","p","e","r">>) \/ includes(t, <<"p","a","p","e","r"," ","l","o","a","d","i","n","g">>)
            THEN LOADING_PAPER
            ELSE IF includes(t, <<"c","a","r","t","r","i","d","g","e">>)
                    /\ (includes(t, <<"e","r","r","o","r">>) \/ includes(t, <<"m","i","s","s","i","n","g">>))
            THEN CARTRIDGE_ISSUE
            ELSE detectedStatus)

\* for (const alert of alerts) { ... break } of parseJsonStatus, from alert i on
RECURSIVE jsonOverride(_, _, _)
jsonOverride(alerts, i, detectedStatus) ==
    IF i > Len(alerts) THEN detectedStatus
    ELSE LET t == alertText(alerts[i]) IN
         IF includes(t, <<"p","a","p","e","r"," ","j","a","m">>) \/ includes(t, <<"j","a","m">>) THEN PAPER_JAM
         ELSE IF includes(t, <<"l","o","a","d"," ","p","a","p","e","r">>) \/ includes(t, <<"p","a","p","e","r"," ","l","o","a","d","i","n","g">>)
         THEN LOADING_PAPER
         ELSE IF includes(t, <<"c","a","r","t","r","i","d","g","e">>)
                 /\ (includes(t, <<"e","r","r","o","r">>) \/ includes(t, <<"m","i","s","s","i","n","g">>))
         THEN CARTRIDGE_ISSUE
         ELSE jsonOverride(alerts, i + 1, detectedStatus)

\* parseJsonStatus(data); alerts, warnings and messages, when present, are arrays
parseJsonStatus(data) ==
    LET status == Or3(Get(data, "status"), Get(data, "printerStatus"),
                      Get(data, "deviceStatus"))
        alerts == IF "alerts" \in DOMAIN data THEN data.alerts
                  ELSE IF "warnings" \in DOMAIN data THEN data.warnings
                  ELSE IF "messages" \in DOMAIN data THEN data.messages
                  ELSE <<>>
    IN  IF status # Undefined
        THEN [status |-> jsonOverride(alerts, 1, mapStatusToEnum(status)),
              message |-> Or3(Get(data, "message"),
                              IF Len(alerts) > 0 THEN Get(alerts[1], "message")
                              ELSE Undefined,
                              <<"S","t","a","t","u","s"," ","f","r","o","m"," ","J","S","O","N"," ","A","P","I">>),
              errorCode |-> Undefined]
        ELSE Null

\* an XML document is the sequence of its elements in document order, each a
\* tag and its text content
Tagged(doc, tags) == SelectSeq(doc, LAMBDA e : e.tag \in tags)

\* the loop over statusElements: querySelector for 'PrinterStatus',
\* 'DeviceStatus', 'Status' in turn; the fourth selector 'dd:PrinterStatus'
\* is not a valid selector, so a document without these three elements makes
\* querySelector throw and the method's catch returns null, as an empty
\* statusText does
xmlStatusText(doc) ==
    IF Tagged(doc, {"PrinterStatus"}) # <<>> THEN Tagged(doc, {"PrinterStatus"})[1].text
    ELSE IF Tagged(doc, {"DeviceStatus"}) # <<>> THEN Tagged(doc, {"DeviceStatus"})[1].text
    ELSE IF Tagged(doc, {"Status"}) # <<>> THEN Tagged(doc, {"Status"})[1].text
    ELSE Undefined

\* querySelectorAll('Alert, Warning, Message, Error'), the non-empty texts
xmlAlertMessages(doc) ==
    LET els == SelectSeq(Tagged(doc, {"Alert", "Warning", "Message", "Error"}),
                         LAMBDA e : e.text # <<>>)
    IN  [i \in 1..Len(els) |-> els[i].text]

\* for (const alert of alertMessages) { ... break } of parseXmlStatus
RECURSIVE xmlOverride(_, _, _)
xmlOverride(alertMessages, i, detectedStatus) ==
    IF i > Len(alertMessages) THEN detectedStatus
    ELSE LET alertLower == toLowerCase(alertMessages[i]) IN
         IF includes(alertLower, <<"p","a","p","e","r"," ","j","a","m">>) THEN PAPER_JAM
         ELSE IF includes(alertLower, <<"l","o","a","d"," ","p","a","p","e","r">>)
                 \/ includes(alertLower, <<"p","a","p","e","r"," ","l","o","a","d","i","n","g">>)
         THEN LOADING_PAPER
         ELSE IF includes(alertLower, <<"c","a","r","t","r","i","d","g","e">>)
                 /\ (includes(alertLower, <<"e","r","r","o","r">>) \/ includes(alertLower, <<"m","i","s","s","i","n","g">>))
         THEN CARTRIDGE_ISSUE
         ELSE xmlOverride(alertMessages, i + 1, detectedStatus)

\* the text content of the whole document
RECURSIVE textContent(_, _)
textContent(doc, i) ==
    IF i > Len(doc) THEN <<>> ELSE doc[i].text \o <<" ">> \o textContent(doc, i + 1)

\* extractErrorCodeFromXml(xmlDoc)
extractErrorCodeFromXml(doc) ==
    LET errorElements == Tagged(doc, {"ErrorCode", "Error", "Code", "AlertCode"})
        codes == parseErrorFromText(textContent(doc, 1))
    IN  IF Len(errorElements) > 0 /\ errorElements[1].text # <<>>
        THEN errorElements[1].text
        ELSE IF Len(errorElements) > 0 THEN Undefined
        ELSE IF Len(codes) > 0 THEN codes[1] ELSE Undefined

\* parseXmlStatus(xmlString), on the parsed document
parseXmlStatus(doc) ==
    LET statusText == xmlStatusText(doc)
        alertMessages == xmlAlertMessages(doc)
    IN  IF statusText = Undefined THEN Null
        ELSE [status |-> xmlOverride(alertMessages, 1, mapStatusToEnum(statusText)),
              message |-> IF Len(alertMessages) > 0 THEN alertMessages[1]
                          ELSE <<"S","t","a","t","u","s"," ","f","r","o","m"," ","X","M","L"," ","A","P","I">>,
              errorCode |-> extractErrorCodeFromXml(doc)]
\* statusKeywords of parseHtmlStatus, in the order Object.entries lists them
statusKeywords ==
    << [status |-> <<"r","e","a","d","y">>, keywords |-> <<<<"r","e","a","d","y">>, <<"i","d","l","e">>, <<"o","n","l","i","n","e">>>>],
       [status |-> <<"p","r","i","n","t","i","n","g">>, keywords |-> <<<<"p","r","i","n","t","i","n","g">>, <<"b","u","s","y">>, <<"p","r","o","c","e","s","s","i","n","g">>>>],
       [status |-> <<"l","o","a","d","i","n","g","_","p","a","p","e","r">>,
        keywords |-> <<<<"l","o","a","d","i","n","g"," ","p","a","p","e","r">>, <<"p","a","p","e","r"," ","l","o","a","d","i","n","g">>, <<"l","o","a","d"," ","p","a","p","e","r">>,
                       <<"i","n","s","e","r","t"," ","p","a","p","e","r">>, <<"p","a","p","e","r"," ","t","r","a","y">>, <<"r","e","f","i","l","l","i","n","g">>>>],
       [status |-> <<"p","a","p","e","r","_","j","a","m">>,
        keywords |-> <<<<"p","a","p","e","r"," ","j","a","m">>, <<"j","a","m">>, <<"p","a","p","e","r"," ","s","t","u","c","k">>, <<"p","a","p","e","r"," ","f","e","e","d">>,
                       <<"f","e","e","d"," ","e","r","r","o","r">>, <<"p","a","p","e","r"," ","p","a","t","h">>>>],
       [status |-> <<"p","a","p","e","r","_","o","u","t">>,
        keywords |-> <<<<"p","a","p","e","r"," ","o","u","t">>, <<"n","o"," ","p","a","p","e","r">>, <<"p","a","p","e","r"," ","e","m","p","t","y">>, <<"o","u","t"," ","o","f"," ","p","a","p","e","r">>,
                       <<"p","a","p","e","r"," ","l","o","w">>>>],
       [status |-> <<"c","a","r","t","r","i","d","g","e","_","i","s","s","u","e">>,
        keywords |-> <<<<"c","a","r","t","r","i","d","g","e">>, <<"i","n","k"," ","c","a","r","t","r","i","d","g","e">>, <<"t","o","n","e","r"," ","c","a","r","t","r","i","d","g","e">>,
                       <<"r","e","p","l","a","c","e"," ","c","a","r","t","r","i","d","g","e">>, <<"c","a","r","t","r","i","d","g","e"," ","e","r","r","o","r">>,
                       <<"c","a","r","t","r","i","d","g","e"," ","m","i","s","s","i","n","g">>, <<"i","n","s","t","a","l","l"," ","c","a","r","t","r","i","d","g","e">>>>],
       [status |-> <<"l","o","w","_","i","n","k">>,
        keywords |-> <<<<"l","o","w"," ","i","n","k">>, <<"l","o","w"," ","t","o","n","e","r">>, <<"i","n","k"," ","l","o","w">>, <<"t","o","n","e","r"," ","l","o","w">>,
                       <<"r","e","p","l","a","c","e"," ","i","n","k">>, <<"r","e","p","l","a","c","e"," ","t","o","n","e","r">>>>],
       [status |-> <<"e","r","r","o","r">>, keywords |-> <<<<"e","r","r","o","r">>, <<"j","a","m">>, <<"p","r","o","b","l","e","m">>, <<"f","a","u","l","t">>>>],
       [status |-> <<"o","f","f","l","i","n","e">>,
        keywords |-> <<<<"o","f","f","l","i","n","e">>, <<"d","i","s","c","o","n","n","e","c","t","e","d">>, <<"n","o","t"," ","a","v","a","i","l","a","b","l","e">>>>] >>

\* keywords.some(keyword => bodyText.includes(keyword))
someKeyword(keywords, bodyText) ==
    \E k \in 1..Len(keywords) : includes(bodyText, keywords[k])

\* the entry at which the for loop over Object.entries(statusKeywords) stops,
\* 0 when no group has a keyword in the text
htmlGroup(bodyText) ==
    LET hits == {g \in 1..Len(statusKeywords) :
                    someKeyword(statusKeywords[g].keywords, bodyText)}
    IN  IF hits = {} THEN 0 ELSE CHOOSE g \in hits : \A h \in hits : g <= h

\* extractErrorCodeFromHtml(text)
extractErrorCodeFromHtml(text) ==
    LET codes == parseErrorFromText(text) IN
    IF Len(codes) > 0 THEN codes[1] ELSE Undefined

\* parseHtmlStatus(html), on the text content of the body.  The object
\* literal returned for a hit (lines 482-489) has a second errorCode
\* initialiser, this.extractErrorCode(data, alerts): data and alerts are not
\* declared in this method or around it, so evaluating the literal throws a
\* ReferenceError, which the method's catch logs before null is returned.
ReferenceErrorInLiteral == TRUE
parseHtmlStatus(html) ==
    LET bodyText == toLowerCase(html)
        g == htmlGroup(bodyText)
        keywords == statusKeywords[g].keywords
        found == CHOOSE k \in 1..Len(keywords) :
                    /\ includes(bodyText, keywords[k])
                    /\ \A j \in 1..(k - 1) : ~includes(bodyText, keywords[j])
    IN  IF g # 0 /\ ~ReferenceErrorInLiteral
        THEN [status |-> mapStatusToEnum(statusKeywords[g].status),
              message |-> <<"S","t","a","t","u","s"," ","d","e","t","e","c","t","e","d",":"," ">> \o keywords[found],
              errorCode |-> extractErrorCodeFromHtml(bodyText)]
        ELSE Null

\* parseHttpResponse(data, contentType)
parseHttpResponse(data, contentType) ==
    IF includes(contentType, <<"a","p","p","l","i","c","a","t","i","o","n","/","j","s","o","n">>) THEN parseJsonStatus(data)
    ELSE IF includes(contentType, <<"x","m","l">>) THEN parseXmlStatus(data)
    ELSE parseHtmlStatus(data)

(***************************************************************************)
(* Status detection: tryHttpStatusDetection, one request at a time         *)
(***************************************************************************)
PRINTER_HTTP_ENDPOINTS ==
    [HP |-> <<"/DevMgmt/ProductStatusDyn.xml", "/hp/device/this.LCDispatcher",
              "/hp/device/InternalPages/Index?id=ConfigurationPage">>,
     CANON |-> <<"/status.html", "/English/pages_MacUS/status_01.html">>,
     EPSON |-> <<"/PRESENTATION/HTML/TOP/PRTINFO.HTML",
                 "/cgi-bin/ewebprint/OP_printer_status.cgi">>,
     BROTHER |-> <<"/general/status.html", "/etc/mnt_info.html">>,
     XEROX |-> <<"/status/status.php", "/properties/status.dhtml">>]

\* every vendor's endpoints, in the order HP, CANON, EPSON, BROTHER, XEROX
AllEndpoints ==
    PRINTER_HTTP_ENDPOINTS.HP \o PRINTER_HTTP_ENDPOINTS.CANON
        \o PRINTER_HTTP_ENDPOINTS.EPSON \o PRINTER_HTTP_ENDPOINTS.BROTHER
        \o PRINTER_HTTP_ENDPOINTS.XEROX

\* a vendor's endpoints followed by the endpoints of the other vendors
getEndpointsForPrinterWithFallback(model) ==
    LET modelUpper == toUpperCase(model)
        own == IF includes(modelUpper, <<"H","P">>) THEN PRINTER_HTTP_ENDPOINTS.HP
               ELSE IF includes(modelUpper, <<"C","A","N","O","N">>) THEN PRINTER_HTTP_ENDPOINTS.CANON
               ELSE IF includes(modelUpper, <<"E","P","S","O","N">>) THEN PRINTER_HTTP_ENDPOINTS.EPSON
               ELSE IF includes(modelUpper, <<"B","R","O","T","H","E","R">>) THEN PRINTER_HTTP_ENDPOINTS.BROTHER
               ELSE IF includes(modelUpper, <<"X","E","R","O","X">>) THEN PRINTER_HTTP_ENDPOINTS.XEROX
               ELSE <<>>
    IN  own \o SelectSeq(AllEndpoints,
                         LAMBDA e : \A i \in 1..Len(own) : own[i] # e)

\* getEndpointsForPrinter(model)
getEndpointsForPrinter(model) ==
    LET modelUpper == toUpperCase(model) IN
    IF includes(modelUpper, <<"H","P">>) THEN PRINTER_HTTP_ENDPOINTS.HP
    ELSE IF includes(modelUpper, <<"C","A","N","O","N">>) THEN PRINTER_HTTP_ENDPOINTS.CANON
    ELSE IF includes(modelUpper, <<"E","P","S","O","N">>) THEN PRINTER_HTTP_ENDPOINTS.EPSON
    ELSE IF includes(modelUpper, <<"B","R","O","T","H","E","R">>) THEN PRINTER_HTTP_ENDPOINTS.BROTHER
    ELSE IF includes(modelUpper, <<"X","E","R","O","X">>) THEN PRINTER_HTTP_ENDPOINTS.XEROX
    ELSE AllEndpoints

\* printer.model of the device a call is made for
Models ==
    { <<"H","P"," ","L","a","s","e","r","J","e","t">>, <<"C","a","n","o","n">>, <<"e","p","s","o","n">>, <<"B","r","o","t","h","e","r">>, <<"X","E","R","O","X">>, <<"S","h","a","r","p">>,
      <<"E","p","s","o","n"," ","f","o","r"," ","C","a","n","o","n">>, <<"R","i","c","o","h">>, Undefined }

\* answers with response.ok: a content type and a body
Responses ==
    << [contentType |-> <<"a","p","p","l","i","c","a","t","i","o","n","/","j","s","o","n",";"," ","c","h","a","r","s","e","t","=","u","t","f","-","8">>,
       data |-> [status |-> <<"r","e","a","d","y">>, alerts |-> <<[message |-> <<"C","a","r","t","r","i","d","g","e"," ","m","i","s","s","i","n","g">>]>>]],
      [contentType |-> <<"a","p","p","l","i","c","a","t","i","o","n","/","j","s","o","n">>,
       data |-> [alerts |-> <<[message |-> <<"p","a","p","e","r"," ","j","a","m">>]>>]],
      [contentType |-> <<"t","e","x","t","/","x","m","l">>,
       data |-> <<[tag |-> "Status", text |-> <<"P","r","i","n","t","i","n","g">>]>>],
      [contentType |-> <<"a","p","p","l","i","c","a","t","i","o","n","/","x","m","l">>,
       data |-> <<[tag |-> "Message", text |-> <<"p","a","p","e","r"," ","j","a","m"," ","1","3",".","0","1">>]>>],
      [contentType |-> <<"t","e","x","t","/","h","t","m","l">>, data |-> <<"R","e","a","d","y">>],
      [contentType |-> Undefined, data |-> <<"W","e","l","c","o","m","e">>] >>

\* the loop without its try/catch: a request that rejects ends the call with
\* the exception
AnsweredThrows(response, statusData) ==
    LET f == [fetch EXCEPT !.response = response, !.statusData = statusData] IN
    IF response = "rejected" THEN [f EXCEPT !.state = "threw"]
    ELSE IF statusData # Null
    THEN [f EXCEPT !.state = "returned", !.result = statusData]
    ELSE IF Len(fetch.requests) < Len(fetch.endpoints)
    THEN [f EXCEPT !.requests = Append(@, fetch.endpoints[Len(fetch.requests) + 1])]
    ELSE [f EXCEPT !.state = "returned", !.result = Null]

\* the loop after the request in flight was answered: return the status it
\* gave, or go on to the next endpoint, or return null after the last one
Answered(response, statusData) ==
    LET f == [fetch EXCEPT !.response = response, !.statusData = statusData] IN
    IF statusData # Null
    THEN [f EXCEPT !.state = "returned", !.result = statusData]
    ELSE IF Len(fetch.requests) < Len(fetch.endpoints)
    THEN [f EXCEPT !.requests = Append(@, fetch.endpoints[Len(fetch.requests) + 1])]
    ELSE [f EXCEPT !.state = "returned", !.result = Null]

\* the call, up to its first await: the first endpoint is requested
TryHttpStatusDetection(model) ==
    /\ fetch.state # "pending"
    /\ \E endpoints \in {getEndpointsForPrinter(model)} :
        fetch' = [NoFetch EXCEPT !.state = "pending", !.model = model,
                                 !.endpoints = endpoints,
                                 !.requests = <<endpoints[1]>>]
    /\ UNCHANGED <<printers, statusHistory, monitoringInterval, heap, arrays, storage, now,
                   timers, cycles, started, last, call, ping>>

\* fetch rejects (network error, or the abort after 10 s), or response.json()
\* rejects: the catch block continues
FetchRejects ==
    /\ fetch.state = "pending"
    /\ fetch' = Answered("rejected", Null)
    /\ UNCHANGED <<printers, statusHistory, monitoringInterval, heap, arrays, storage, now,
                   timers, cycles, started, last, call, ping>>

\* !response.ok
ResponseNotOk ==
    /\ fetch.state = "pending"
    /\ fetch' = Answered("not ok", Null)
    /\ UNCHANGED <<printers, statusHistory, monitoringInterval, heap, arrays, storage, now,
                   timers, cycles, started, last, call, ping>>

\* response.ok: the body is read and parsed
ResponseOk(r) ==
    /\ fetch.state = "pending"
    /\ fetch' = Answered("ok", parseHttpResponse(r.data, r.contentType))
    /\ UNCHANGED <<printers, statusHistory, monitoringInterval, heap, arrays, storage, now,
                   timers, cycles, started, last, call, ping>>

NextFetch ==
    \/ \E model \in Models : TryHttpStatusDetection(model)
    \/ FetchRejects
    \/ ResponseNotOk
    \/ \E i \in 1..Len(Responses) : ResponseOk(Responses[i])

SpecFetch == Init /\ [][NextFetch]_vars

(***************************************************************************)
(* pingPrinter, one probe method at a time, followed by the requests of    *)
(* tryHttpStatusDetection as in checkPrinterStatus                         *)
(***************************************************************************)
\* the methods array of pingPrinter
methods == <<"testHttpConnection", "testImageLoad", "testWebSocket">>

\* pingPrinter without its try/catch around await method()
ProbedNoCatch(signal) ==
    LET p == [ping EXCEPT !.signals = Append(@, signal)] IN
    IF signal = "true" THEN [p EXCEPT !.state = "returned", !.result = TRUE]
    ELSE IF signal = "rejected" THEN [p EXCEPT !.state = "threw"]
    ELSE IF Len(ping.tried) < Len(methods)
    THEN [p EXCEPT !.tried = Append(@, methods[Len(ping.tried) + 1])]
    ELSE [p EXCEPT !.state = "returned", !.result = FALSE]

\* the loop after the method in flight settled: return true on a positive
\* result, otherwise (false, or a rejection caught) go on to the next method,
\* and return false after the last
Probed(signal) ==
    LET p == [ping EXCEPT !.signals = Append(@, signal)] IN
    IF signal = "true" THEN [p EXCEPT !.state = "returned", !.result = TRUE]
    ELSE IF Len(ping.tried) < Len(methods)
    THEN [p EXCEPT !.tried = Append(@, methods[Len(ping.tried) + 1])]
    ELSE [p EXCEPT !.state = "returned", !.result = FALSE]

\* checkPrinterStatus calls pingPrinter: the first method is started
PingPrinter ==
    /\ ping.state # "pending"
    /\ fetch.state # "pending"
    /\ ping' = [NoPing EXCEPT !.state = "pending", !.tried = <<methods[1]>>]
    /\ fetch' = NoFetch
    /\ UNCHANGED <<printers, statusHistory, monitoringInterval, heap, arrays, storage, now,
                   timers, cycles, started, last, call>>

\* the method in flight resolves true (a response, an image load or error, an
\* open socket) or false (a failed fetch, a timeout, a socket error)
MethodResolves(result) ==
    /\ ping.state = "pending"
    /\ ping' = Probed(IF result THEN "true" ELSE "false")
    /\ UNCHANGED <<printers, statusHistory, monitoringInterval, heap, arrays, storage, now,
                   timers, cycles, started, last, fetch, call>>

\* the promise of testImageLoad rejects: its executor threw (no Image
\* constructor); the other two methods catch what they throw
MethodRejects ==
    /\ ping.state = "pending"
    /\ ping.tried[Len(ping.tried)] = "testImageLoad"
    /\ ping' = Probed("rejected")
    /\ UNCHANGED <<printers, statusHistory, monitoringInterval, heap, arrays, storage, now,
                   timers, cycles, started, last, fetch, call>>

\* lines 126-134: the endpoints are requested once pingPrinter returned true
NextProbe ==
    \/ PingPrinter
    \/ \E result \in BOOLEAN : MethodResolves(result)
    \/ MethodRejects
    \/ \E model \in Models :
          /\ ping.state = "returned" /\ ping.result /\ fetch.state = "none"
          /\ TryHttpStatusDetection(model)
    \/ FetchRejects
    \/ ResponseNotOk
    \/ \E i \in 1..Len(Responses) : ResponseOk(Responses[i])

SpecProbe == Init /\ [][NextProbe]_vars

(***************************************************************************)
(* One check from its first probe to the end of tryHttpStatusDetection,    *)
(* with the two awaits of a request apart: `await fetch(...)` settles when *)
(* the response's headers are in, clearTimeout(timeoutId) follows (line    *)
(* 288), and only then `await response.json()` / `await response.text()`   *)
(* reads the body.                                                         *)
(***************************************************************************)
\* the check is over: no probe got an answer, or the endpoints loop returned
CheckOver ==
    /\ ping.state = "returned"
    /\ ~ping.result \/ fetch.state = "returned"

\* a check starts when none is under way
StartCheck ==
    /\ ping.state = "none" \/ CheckOver
    /\ PingPrinter

\* lines 126-134: pingPrinter returned true, tryHttpStatusDetection is called
HttpAfterPing ==
    \E model \in Models :
        /\ ping.state = "returned" /\ ping.result /\ fetch.state = "none"
        /\ TryHttpStatusDetection(model)

\* fetch resolves with response.ok: the abort timer is cleared and the body
\* is awaited
ResponseHeaders ==
    /\ fetch.state = "pending"
    /\ fetch' = [fetch EXCEPT !.state = "reading", !.response = "ok"]
    /\ UNCHANGED <<printers, statusHistory, monitoringInterval, heap, arrays, storage, now,
                   timers, cycles, started, last, call, ping>>

\* the request of the next endpoint is in flight again
NextRequest(f) == [f EXCEPT !.state = IF @ = "reading" THEN "pending" ELSE @]

\* the body has arrived and is parsed
BodyRead(r) ==
    /\ fetch.state = "reading"
    /\ fetch' = NextRequest(Answered("ok", parseHttpResponse(r.data, r.contentType)))
    /\ UNCHANGED <<printers, statusHistory, monitoringInterval, heap, arrays, storage, now,
                   timers, cycles, started, last, call, ping>>

\* response.json() or response.text() rejects: the catch block continues
BodyRejects ==
    /\ fetch.state = "reading"
    /\ fetch' = NextRequest(Answered("rejected", Null))
    /\ UNCHANGED <<printers, statusHistory, monitoringInterval, heap, arrays, storage, now,
                   timers, cycles, started, last, call, ping>>

NextPatient ==
    \/ StartCheck
    \/ \E result \in BOOLEAN : MethodResolves(result)
    \/ MethodRejects
    \/ HttpAfterPing
    \/ FetchRejects
    \/ ResponseNotOk
    \/ ResponseHeaders
    \/ \E i \in 1..Len(Responses) : BodyRead(Responses[i])
    \/ BodyRejects

\* The timers fire and the code after an await runs: the timer of the probe
\* in flight makes it resolve false (5 s, 3 s, 2 s), the timer of a request
\* aborts it (10 s) while it is armed.  Nothing makes a device send its body.
SpecPatient ==
    /\ Init
    /\ [][NextPatient]_vars
    /\ WF_vars(MethodResolves(FALSE))
    /\ WF_vars(HttpAfterPing)
    /\ WF_vars(FetchRejects)

(***************************************************************************)
(* Calls of the text functions on inputs drawn from bounded sets           *)
(***************************************************************************)
\* words a device's raw status signal is made of
SignalWords ==
    { <<"r","e","a","d","y">>, <<"I","d","l","e">>, <<"p","r","i","n","t","i","n","g">>, <<"b","u","s","y">>, <<"p","a","p","e","r">>, <<"j","a","m">>, <<"o","u","t">>,
      <<"e","m","p","t","y">>, <<"l","o","a","d">>, <<"i","n","k">>, <<"t","o","n","e","r">>, <<"c","a","r","t","r","i","d","g","e">>, <<"m","a","i","n","t","e","n","a","n","c","e">>,
      <<"o","f","f","l","i","n","e">>, <<"D","I","S","C","O","N","N","E","C","T","E","D">>, <<"e","r","r","o","r">>, <<"f","a","u","l","t">>, <<"s","t","a","n","d","b","y">> }
\* raw status signals: one word, or two words separated by a blank
Signals == SignalWords \cup {v \o <<" ">> \o w : v, w \in SignalWords}

\* an input that no function has been applied to yet
Input(kind, arg) ==
    [fn |-> "none", kind |-> kind, arg |-> arg, value |-> Undefined, group |-> 0]
\* U+2014, a character outside \w, \s and \d
EmDash == "--"
\* two-segment numeric codes, and what follows the code in a message
TwoSegmentCodes == { <<"1","3",".","0","1">>, <<"4","1",".","0","3">>, <<"7","9",".","0","0">> }
MessageTails == { <<>>, <<" ", EmDash>> \o <<" ","P","a","p","e","r"," ","j","a","m"," ","i","n"," ","i","n","p","u","t"," ","t","r","a","y">>, <<" ","d","e","t","e","c","t","e","d",".">> }
\* messages that name one code after the word "Error"
Messages == {<<"E","r","r","o","r"," ">> \o c \o tail : c \in TwoSegmentCodes, tail \in MessageTails}

\* texts in which a code occurs twice, is matched by two patterns, or comes
\* before a code of an earlier pattern
CodeTexts ==
    { <<"E","-","0","1"," ","E","0","2"," ","E","-","0","1">>,
      <<"C","o","d","e"," ","E","-","0","1"," ","a","t"," ","E","-","0","1">>,
      <<"E","0","2"," ","t","h","e","n"," ","1","3",".","0","1"," ","C","o","d","e"," ","E","0","2"," ","1","3",".","0","1">>,
      <<"e","r","r","o","r"," ","5","0"," ","C","o","d","e"," ","5","9","F","0"," ","1","3",".","0","1",".","0","2">>,
      <<"W","-","0","1"," ","E","-","0","2"," ","4","1",".","0","3"," ","1","0",".","0","0"," ","4","1",".","0","3">> }

\* codes and vendor hints handed to getErrorCodeInfo: a code of each vendor
\* table, a vendor-neutral code, a code of no table, a member of Object.prototype
LookupCodes == { <<"5","9",".","F","0">>, <<"E","0","2">>, <<"E","-","0","1">>, <<"1","3",".","0","1">>, <<"9","9",".","9","9">>, <<"c","o","n","s","t","r","u","c","t","o","r">> }
LookupModels ==
    { <<"h","p">>, <<"C","a","n","o","n">>, <<"E","P","S","O","N">>, <<"B","r","o","t","h","e","r">>, <<"S","h","a","r","p">>, <<"C","a","n","o","n"," ","H","P">>, Undefined }

\* texts of alerts: each override condition alone, the cartridge condition
\* together with the jam condition, and texts that meet no condition
AlertTexts ==
    { <<"C","a","r","t","r","i","d","g","e"," ","m","i","s","s","i","n","g">>, <<"c","a","r","t","r","i","d","g","e"," ","e","r","r","o","r">>, <<"P","a","p","e","r"," ","j","a","m"," ","i","n"," ","t","r","a","y"," ","2">>,
      <<"P","l","e","a","s","e"," ","l","o","a","d"," ","p","a","p","e","r">>, <<"C","a","r","t","r","i","d","g","e"," ","e","r","r","o","r",":"," ","j","a","m"," ","a","t"," ","c","a","r","t","r","i","d","g","e"," ","d","o","o","r">>,
      <<"T","o","n","e","r"," ","l","o","w">>, <<"c","a","r","t","r","i","d","g","e"," ","i","n","s","t","a","l","l","e","d">> }
AlertLists ==
    {<<>>} \cup {<<a>> : a \in AlertTexts} \cup {<<a, b>> : a, b \in AlertTexts}
\* alert objects carry their text as message
AlertObjects(list) == [i \in 1..Len(list) |-> [message |-> list[i]]]
\* JSON payloads: a status and a list of alerts, and the other spellings of
\* the fields
JsonPayloads ==
    {[status |-> s, alerts |-> AlertObjects(l)] :
        s \in {<<"r","e","a","d","y">>, <<"P","r","i","n","t","i","n","g">>, <<"o","f","f","l","i","n","e">>}, l \in AlertLists}
    \cup { [printerStatus |-> <<"i","d","l","e">>, message |-> <<"A","t","t","e","n","t","i","o","n">>,
            warnings |-> <<[text |-> <<"c","a","r","t","r","i","d","g","e"," ","m","i","s","s","i","n","g">>]>>],
           [deviceStatus |-> <<"b","u","s","y">>,
            messages |-> <<[description |-> <<"l","o","a","d"," ","p","a","p","e","r">>], [message |-> <<"j","a","m">>]>>],
           [alerts |-> <<[message |-> <<"p","a","p","e","r"," ","j","a","m">>]>>] }
\* XML documents: a Status element followed by Alert elements, and documents
\* with other elements
XmlElements(tag, list) == [i \in 1..Len(list) |-> [tag |-> tag, text |-> list[i]]]
XmlPayloads ==
    {<<[tag |-> "Status", text |-> s]>> \o XmlElements("Alert", l) :
        s \in {<<"r","e","a","d","y">>, <<"P","r","i","n","t","i","n","g">>}, l \in AlertLists}
    \cup { <<[tag |-> "DeviceStatus", text |-> <<"i","d","l","e">>],
             [tag |-> "ErrorCode", text |-> <<"E","-","0","2">>],
             [tag |-> "Warning", text |-> <<"c","a","r","t","r","i","d","g","e"," ","m","i","s","s","i","n","g">>]>>,
           <<[tag |-> "Message", text |-> <<"p","a","p","e","r"," ","j","a","m"," ","1","3",".","0","1">>]>>,
           <<[tag |-> "PrinterStatus", text |-> <<"p","a","p","e","r"," ","j","a","m"," ","1","3",".","0","1">>]>> }

\* page texts: a phrase, or two phrases separated by a blank
HtmlPhrases ==
    { <<"C","a","r","t","r","i","d","g","e"," ","m","i","s","s","i","n","g">>, <<"p","a","p","e","r"," ","j","a","m">>, <<"P","a","p","e","r"," ","o","u","t">>, <<"l","o","a","d"," ","p","a","p","e","r">>, <<"l","o","w"," ","i","n","k">>,
      <<"P","r","i","n","t","i","n","g">>, <<"R","e","a","d","y">>, <<"o","f","f","l","i","n","e">>, <<"W","e","l","c","o","m","e">> }
HtmlTexts == HtmlPhrases \cup {v \o <<" ">> \o w : v, w \in HtmlPhrases}

Inputs ==
    {Input("signal", s) : s \in Signals}
        \cup {Input("html", h) : h \in HtmlTexts}
        \cup {Input("json", d) : d \in JsonPayloads}
        \cup {Input("xml", d) : d \in XmlPayloads}
        \cup {Input("message", m) : m \in Messages \cup CodeTexts}
        \cup {Input("lookup", [code |-> c, printerModel |-> m]) :
                  c \in LookupCodes, m \in LookupModels}

Applied(fn, value) == [call EXCEPT !.fn = fn, !.value = value]

MapStatusToEnum ==
    /\ call.kind = "signal"
    /\ call' = Applied("mapStatusToEnum", mapStatusToEnum(call.arg))
    /\ UNCHANGED <<printers, statusHistory, monitoringInterval, heap, arrays, storage, now,
                   timers, cycles, started, last, fetch, ping>>

ParseErrorFromText ==
    /\ call.kind = "message"
    /\ call' = Applied("parseErrorFromText", parseErrorFromText(call.arg))
    /\ UNCHANGED <<printers, statusHistory, monitoringInterval, heap, arrays, storage, now,
                   timers, cycles, started, last, fetch, ping>>

NewError ==
    /\ call.kind = "lookup"
    /\ call' = Applied("newError", newError(call.arg.code, call.arg.printerModel))
    /\ UNCHANGED <<printers, statusHistory, monitoringInterval, heap, arrays, storage, now,
                   timers, cycles, started, last, fetch, ping>>

ParseJsonStatus ==
    /\ call.kind = "json"
    /\ call' = Applied("parseJsonStatus", parseJsonStatus(call.arg))
    /\ UNCHANGED <<printers, statusHistory, monitoringInterval, heap, arrays, storage, now,
                   timers, cycles, started, last, fetch, ping>>

ParseXmlStatus ==
    /\ call.kind = "xml"
    /\ call' = Applied("parseXmlStatus", parseXmlStatus(call.arg))
    /\ UNCHANGED <<printers, statusHistory, monitoringInterval, heap, arrays, storage, now,
                   timers, cycles, started, last, fetch, ping>>

ParseHtmlStatus ==
    /\ call.kind = "html"
    /\ call' = [Applied("parseHtmlStatus", parseHtmlStatus(call.arg))
                    EXCEPT !.group = htmlGroup(toLowerCase(call.arg))]
    /\ UNCHANGED <<printers, statusHistory, monitoringInterval, heap, arrays, storage, now,
                   timers, cycles, started, last, fetch, ping>>

InitCalls ==
    /\ Constructed
    /\ fetch = NoFetch
    /\ call \in Inputs
    /\ ping = NoPing

NextCalls ==
    \/ MapStatusToEnum
    \/ ParseErrorFromText
    \/ NewError
    \/ ParseJsonStatus
    \/ ParseXmlStatus
    \/ ParseHtmlStatus

SpecCalls == InitCalls /\ [][NextCalls]_vars

(***************************************************************************)
(* Claims C14 - C20                                                        *)
(***************************************************************************)
\* the rules of the first pass in their priority order: a rule applies to a
\* signal that contains every keyword of `all` and some keyword of `any`
C18_Rules ==
    << [all |-> {}, any |-> {<<"r","e","a","d","y">>, <<"i","d","l","e">>}, status |-> READY],
       [all |-> {}, any |-> {<<"p","r","i","n","t","i","n","g">>, <<"b","u","s","y">>}, status |-> PRINTING],
       [all |-> {<<"p","a","p","e","r">>}, any |-> {<<"j","a","m">>}, status |-> PAPER_JAM],
       [all |-> {<<"p","a","p","e","r">>}, any |-> {<<"o","u","t">>, <<"e","m","p","t","y">>}, status |-> PAPER_OUT],
       [all |-> {<<"p","a","p","e","r">>}, any |-> {<<"l","o","a","d">>}, status |-> LOADING_PAPER],
       [all |-> {}, any |-> {<<"i","n","k">>, <<"t","o","n","e","r">>}, status |-> LOW_INK],
       [all |-> {}, any |-> {<<"c","a","r","t","r","i","d","g","e">>}, status |-> CARTRIDGE_ISSUE],
       [all |-> {}, any |-> {<<"m","a","i","n","t","e","n","a","n","c","e">>}, status |-> MAINTENANCE_REQUIRED],
       [all |-> {}, any |-> {<<"o","f","f","l","i","n","e">>, <<"d","i","s","c","o","n","n","e","c","t","e","d">>}, status |-> OFFLINE],
       [all |-> {}, any |-> {<<"e","r","r","o","r">>, <<"f","a","u","l","t">>}, status |-> ERROR] >>
C18_Applies(i, s) ==
    /\ \A k \in C18_Rules[i].all : includes(s, k)
    /\ \E k \in C18_Rules[i].any : includes(s, k)
C18_FirstRule(s) ==
    LET hits == {i \in 1..Len(C18_Rules) : C18_Applies(i, s)} IN
    IF hits = {} THEN READY
    ELSE C18_Rules[CHOOSE i \in hits : \A j \in hits : i <= j].status

\* C18: for every raw signal, mapStatusToEnum yields the status of the first
\* rule, in the order ready/idle, printing/busy, paper+jam, paper+(out|empty),
\* paper+load, ink/toner, cartridge, maintenance, offline/disconnected,
\* error/fault, whose keywords occur in the lower-cased signal, and Ready when
\* no rule applies.
C18_FirstRuleDecides ==
    call.fn = "mapStatusToEnum" => call.value = C18_FirstRule(toLowerCase(call.arg))
\* a signal that two rules apply to: "toner cartridge" is LowInk
C18_Witness ==
    /\ call.fn = "mapStatusToEnum"
    /\ call.arg = <<"t","o","n","e","r"," ","c","a","r","t","r","i","d","g","e">>
    /\ call.value = LOW_INK

\* C17: the extractor applied to a text whose only error code is a two-segment
\* numeric code preceded by the word "Error" returns exactly that one code.
C17_ExactlyTheCode ==
    \A c \in TwoSegmentCodes, tail \in MessageTails :
        (call.fn = "parseErrorFromText" /\ call.arg = <<"E","r","r","o","r"," ">> \o c \o tail)
            => call.value = <<c>>

\* the vendor tables in the order they are consulted, and the descriptor the
\* catalog owes for a code and a vendor hint
C19_Vendors ==
    << [name |-> <<"H","P">>, table |-> HP_ERROR_CODES],
       [name |-> <<"C","A","N","O","N">>, table |-> CANON_ERROR_CODES],
       [name |-> <<"E","P","S","O","N">>, table |-> EPSON_ERROR_CODES] >>
C19_Descriptor(code, hint) ==
    LET match == {v \in 1..Len(C19_Vendors) :
                     /\ includes(toUpperCase(hint), C19_Vendors[v].name)
                     /\ code \in DOMAIN C19_Vendors[v].table}
    IN  IF match # {}
        THEN C19_Vendors[CHOOSE v \in match : \A w \in match : v <= w].table[code]
        ELSE IF code \in DOMAIN ERROR_CODE_DATABASE THEN ERROR_CODE_DATABASE[code]
        ELSE [description |-> <<"U","n","k","n","o","w","n"," ","e","r","r","o","r"," ","c","o","d","e",":"," ">> \o code,
              severity |-> MEDIUM, category |-> SYSTEM]

\* C19: for every code and vendor hint the ledger entry built from the lookup
\* carries the vendor's descriptor when the hint matches a vendor whose table
\* has the code, otherwise the vendor-neutral descriptor, otherwise the
\* description "Unknown error code: {code}", severity Medium and category
\* System; so it always has a description, a severity and a category.
C19_LookupNeverFails ==
    call.fn = "newError" =>
        LET d == C19_Descriptor(call.arg.code, call.arg.printerModel) IN
        /\ call.value.code = call.arg.code
        /\ call.value.description = d.description
        /\ call.value.severity = d.severity
        /\ call.value.category = d.category
        /\ call.value.description # <<>>
        /\ call.value.severity \in ErrorSeverity
        /\ call.value.category \in ErrorCategory
\* a code of no table, looked up with a vendor hint: the Unknown descriptor
C19_Witness ==
    /\ call.fn = "newError"
    /\ call.arg = [code |-> <<"9","9",".","9","9">>, printerModel |-> <<"E","P","S","O","N">>]
    /\ call.value.description = <<"U","n","k","n","o","w","n"," ","e","r","r","o","r"," ","c","o","d","e",":"," ","9","9",".","9","9">>
    /\ call.value.severity = MEDIUM
    /\ call.value.category = SYSTEM

\* the alert texts a parser call went through, lower-cased, and the three
\* override conditions (the jam condition is 'jam' for JSON, 'paper jam' for XML)
C16_Alerts ==
    IF call.kind = "json"
    THEN LET data == call.arg
             alerts == IF "alerts" \in DOMAIN data THEN data.alerts
                       ELSE IF "warnings" \in DOMAIN data THEN data.warnings
                       ELSE IF "messages" \in DOMAIN data THEN data.messages
                       ELSE <<>>
         IN  [i \in 1..Len(alerts) |-> alertText(alerts[i])]
    ELSE LET msgs == xmlAlertMessages(call.arg)
         IN  [i \in 1..Len(msgs) |-> toLowerCase(msgs[i])]
C16_Jam(t) == includes(t, IF call.kind = "json" THEN <<"j","a","m">> ELSE <<"p","a","p","e","r"," ","j","a","m">>)
C16_Load(t) == includes(t, <<"l","o","a","d"," ","p","a","p","e","r">>) \/ includes(t, <<"p","a","p","e","r"," ","l","o","a","d","i","n","g">>)
C16_Cartridge(t) ==
    includes(t, <<"c","a","r","t","r","i","d","g","e">>) /\ (includes(t, <<"e","r","r","o","r">>) \/ includes(t, <<"m","i","s","s","i","n","g">>))
C16_Overrides(t) == C16_Jam(t) \/ C16_Load(t) \/ C16_Cartridge(t)
\* the first alert in list order that meets an override condition, 0 if none
C16_First ==
    LET hits == {i \in 1..Len(C16_Alerts) : C16_Overrides(C16_Alerts[i])} IN
    IF hits = {} THEN 0 ELSE CHOOSE i \in hits : \A j \in hits : i <= j
C16_Parsed ==
    /\ call.fn \in {"parseJsonStatus", "parseXmlStatus"}
    /\ call.value # Null

C15_Order ==
    << <<"c","a","r","t","r","i","d","g","e","_","i","s","s","u","e">>, <<"p","a","p","e","r","_","j","a","m">>, <<"p","a","p","e","r","_","o","u","t">>, <<"l","o","a","d","i","n","g","_","p","a","p","e","r">>,
       <<"l","o","w","_","i","n","k">>, <<"p","r","i","n","t","i","n","g">>, <<"r","e","a","d","y">>, <<"o","f","f","l","i","n","e">> >>
C15_Keywords(status) ==
    statusKeywords[CHOOSE g \in 1..Len(statusKeywords) :
                       statusKeywords[g].status = status].keywords
C15_First(bodyText) ==
    LET hits == {i \in 1..Len(C15_Order) :
                    someKeyword(C15_Keywords(C15_Order[i]), bodyText)}
    IN  IF hits = {} THEN 0 ELSE CHOOSE i \in hits : \A j \in hits : i <= j

\* C15: free-text normalization tests the groups in the order cartridge-issue,
\* paper-jam, paper-out, loading-paper, low-ink, printing, ready, offline and
\* the first group with a keyword in the text decides the status.
C15_ClaimedOrderDecides ==
    (call.fn = "parseHtmlStatus" /\ C15_First(toLowerCase(call.arg)) > 0) =>
        /\ statusKeywords[call.group].status
               = C15_Order[C15_First(toLowerCase(call.arg))]
        /\ call.value # Null
        /\ call.value.status
               = mapStatusToEnum(C15_Order[C15_First(toLowerCase(call.arg))])

\* the vendors in the order their names are looked for in the model string,
\* and the candidate list of a model
C14_Vendors == << [name |-> <<"H","P">>, list |-> PRINTER_HTTP_ENDPOINTS.HP],
                  [name |-> <<"C","A","N","O","N">>, list |-> PRINTER_HTTP_ENDPOINTS.CANON],
                  [name |-> <<"E","P","S","O","N">>, list |-> PRINTER_HTTP_ENDPOINTS.EPSON],
                  [name |-> <<"B","R","O","T","H","E","R">>, list |-> PRINTER_HTTP_ENDPOINTS.BROTHER],
                  [name |-> <<"X","E","R","O","X">>, list |-> PRINTER_HTTP_ENDPOINTS.XEROX] >>
C14_Matching(model) ==
    {v \in 1..Len(C14_Vendors) : includes(toUpperCase(model), C14_Vendors[v].name)}
C14_Candidates(model) ==
    IF C14_Matching(model) = {} THEN AllEndpoints
    ELSE C14_Vendors[CHOOSE v \in C14_Matching(model) :
                        \A w \in C14_Matching(model) : v <= w].list
C14_IsPrefix(s, t) == Len(s) <= Len(t) /\ \A i \in 1..Len(s) : s[i] = t[i]

\* C14 as stated: for a model matching a vendor, when the vendor's endpoints
\* have all been requested without a status, the call falls back to the
\* generic list (it goes on requesting endpoints).
C14_FallsBackToGeneric ==
    [][(/\ fetch.state = "pending"
        /\ C14_Matching(fetch.model) # {}
        /\ fetch.requests = C14_Candidates(fetch.model)
        /\ fetch'.model = fetch.model
        /\ fetch'.statusData = Null)
           => (fetch'.state = "pending" /\ Len(fetch'.requests) > Len(fetch.requests))]_vars

\* C14, amended: the requests of a call are, in order, the endpoints of the
\* first vendor (of HP, CANON, EPSON, BROTHER, XEROX) whose name occurs in the
\* upper-cased model and no others, or the concatenation of all vendors'
\* endpoints for a model matching none; the call returns the status of the
\* first endpoint that yields one without a further request, and returns no
\* status once every candidate has been requested.
C14_CandidatesInOrder ==
    [][fetch'.state # "none" =>
        /\ C14_IsPrefix(fetch'.requests, C14_Candidates(fetch'.model))
        /\ Len(fetch'.requests) >= 1
        /\ (fetch.state = "pending" /\ fetch'.statusData # Null) =>
               /\ fetch'.state = "returned"
               /\ fetch'.result = fetch'.statusData
               /\ fetch'.requests = fetch.requests
        /\ (fetch'.state = "returned" /\ fetch'.result = Null) =>
               fetch'.requests = C14_Candidates(fetch'.model)
        /\ (fetch.state = "pending" /\ fetch'.statusData = Null
                /\ Len(fetch.requests) < Len(C14_Candidates(fetch.model))) =>
               /\ fetch'.state = "pending"
               /\ Len(fetch'.requests) = Len(fetch.requests) + 1]_vars
\* a call for a Canon device that requested both Canon endpoints, got no
\* status and returned none
C14_Witness ==
    /\ fetch.state = "returned"
    /\ fetch.model = <<"C","a","n","o","n">>
    /\ fetch.requests = PRINTER_HTTP_ENDPOINTS.CANON
    /\ fetch.result = Null

\* C20: a call of checkAllPrinters starts exactly one check for each device
\* registered when it is called, each on the record the registry holds for
\* the device; while one of these checks has not returned the call has not
\* completed and its checks stay those it started with; it completes with the
\* return of the last of them, each check having returned a result.
C20_OneCheckPerDevice ==
    [][/\ last'.op = "checkAllPrinters" =>
            IF DOMAIN printers = {}
            THEN last'.result = "fulfilled" /\ cycles' = cycles
            ELSE /\ last'.result = "pending"
                 /\ \E c \in CycleIds :
                      /\ cycles[c].kind = "free"
                      /\ cycles'[c].kind = "all"
                      /\ cycles'[c].result = "pending"
                      /\ DOMAIN cycles'[c].checks = DOMAIN printers
                      /\ \A d \in DOMAIN printers :
                            /\ cycles'[c].checks[d].outcome = "pending"
                            /\ cycles'[c].checks[d].printer = printers'[d]
                      /\ \A b \in CycleIds \ {c} : cycles'[b] = cycles[b]
       /\ \A c \in CycleIds :
            cycles'[c].kind = "all" =>
                /\ cycles'[c].result = "pending"
                /\ \E d \in DOMAIN cycles'[c].checks :
                      cycles'[c].checks[d].outcome = "pending"
                /\ cycles[c].kind = "all" =>
                      DOMAIN cycles'[c].checks = DOMAIN cycles[c].checks
       /\ \A c \in CycleIds, d \in DevIds :
            (Returns(c, d) /\ cycles[c].kind = "all") =>
                LET others == {e \in DOMAIN cycles[c].checks \ {d} :
                                  cycles[c].checks[e].outcome = "pending"}
                IN  /\ last'.result = IF others = {} THEN "fulfilled" ELSE "pending"
                    /\ others # {} => cycles'[c].kind = "all"
                    /\ others = {} =>
                          \A e \in DOMAIN cycles[c].checks \ {d} :
                              cycles[c].checks[e].outcome = "fulfilled"]_vars
\* the call made with two devices registered has completed: the check of the
\* second device was the last to return
C20_Witness ==
    /\ last.op = "checkReturn"
    /\ last.kind = "all"
    /\ last.result = "fulfilled"
    /\ last.id = DevSeq[2]
    /\ DOMAIN printers = DevIds
    /\ Status(DevSeq[1]) # OFFLINE
    /\ \A c \in CycleIds : cycles[c].kind = "free"

\* One device whose answers are XML documents: what parseXmlStatus makes of a
\* document is the status data of the check, the operations one after the
\* other.
HintDocs ==
    << <<[tag |-> "Status", text |-> <<"p","a","p","e","r"," ","j","a","m">>],
         [tag |-> "ErrorCode", text |-> <<"E","-","0","1">>]>>,
       <<[tag |-> "Status", text |-> <<"r","e","a","d","y">>],
         [tag |-> "Alert", text |-> <<"j","a","m"," ","E","-","0","2">>]>> >>

NextHint ==
    \/ \E id \in OneDev : Idle /\ AddPrinter(id)
    \/ \E id \in OneDev : Idle /\ RemovePrinter(id)
    \/ \E id \in OneDev, code \in ResolveCodes : Idle /\ ResolveErrorCode(id, code)
    \/ \E id \in OneDev : Idle /\ started < MaxChecks /\ CheckPrinterStatus(1, id)
    \/ \E d \in OneDev : CheckUnreachable(1, d)
    \/ \E d \in OneDev, i \in 1..Len(HintDocs) :
         CheckStatus(1, d, parseXmlStatus(HintDocs[i]))
    \/ \E d \in OneDev : CheckExhausted(1, d)
    \/ \E d \in OneDev, e \in Exceptions : CheckThrows(1, d, e)

SpecHint == Init /\ [][NextHint]_vars

(***************************************************************************)
(* Claims C21 - C30                                                        *)
(***************************************************************************)
C21_IsPrefix(s, t) == Len(s) <= Len(t) /\ \A i \in 1..Len(s) : s[i] = t[i]

\* C21: pingPrinter runs the probe methods in the order HTTP connection,
\* image load, socket; it returns true at the first method that reports a
\* positive result without running a later one, returns false exactly when
\* none of the three reported a positive result, and never throws.
C21_FirstPositiveProbe ==
    [][ping'.state # "none" =>
        /\ ping'.state \in {"pending", "returned"}
        /\ C21_IsPrefix(ping'.tried,
                        <<"testHttpConnection", "testImageLoad", "testWebSocket">>)
        /\ Len(ping'.tried) >= 1
        /\ (ping.state = "pending" /\ ping'.signals # ping.signals
                /\ ping'.signals[Len(ping'.signals)] = "true") =>
               /\ ping'.state = "returned"
               /\ ping'.result
               /\ ping'.tried = ping.tried
        /\ ping'.state = "returned" =>
               /\ Len(ping'.signals) = Len(ping'.tried)
               /\ ping'.result <=> ping'.signals[Len(ping'.signals)] = "true"
               /\ \A i \in 1..(Len(ping'.signals) - 1) : ping'.signals[i] # "true"
               /\ ~ping'.result => Len(ping'.tried) = 3
        /\ ping'.state = "pending" =>
               /\ Len(ping'.signals) = Len(ping'.tried) - 1
               /\ \A i \in 1..Len(ping'.signals) : ping'.signals[i] # "true"]_vars
\* the HTTP probe failed, the image probe rejected, the socket opened
C21_Witness ==
    /\ ping.state = "returned"
    /\ ping.result
    /\ ping.signals = <<"false", "rejected", "true">>
\* the three probes failed
C21_WitnessFalse ==
    /\ ping.state = "returned"
    /\ ~ping.result
    /\ Len(ping.tried) = 3

\* the two states of the scheduler
C22_Stopped == monitoringInterval = NullRef /\ timers = {}
C22_Running == monitoringInterval \in TimerIds /\ timers = {monitoringInterval}

\* C22: the scheduler is always Stopped or Running; stopMonitoring from
\* Running leads to Stopped, stopMonitoring while Stopped changes nothing, so
\* a second stop leaves the state of the first; it touches nothing but the
\* timer, and no tick fires in the state it leaves.
C22_StopIdempotent ==
    /\ [](/\ C22_Stopped \/ C22_Running
          /\ last.op = "stopMonitoring" =>
                /\ C22_Stopped
                /\ \A t \in TimerIds, c \in CycleIds : ~ENABLED Tick(t, c))
    /\ [][last'.op = "stopMonitoring" =>
            /\ C22_Stopped'
            /\ last'.path = (IF C22_Running THEN "stopped" ELSE "idle")
            /\ C22_Stopped => UNCHANGED <<monitoringInterval, timers>>
            /\ UNCHANGED <<printers, statusHistory, heap, arrays, storage, cycles, started>>]_vars
\* a stop while stopped, after a stop from Running that left a tick's call in
\* flight
C22_Witness ==
    /\ last.op = "stopMonitoring"
    /\ last.path = "idle"
    /\ C22_Stopped
    /\ \E c \in CycleIds : cycles[c].kind = "tick"

\* C23: after addPrinter(config) the registry holds a device with the id of
\* config whose status is Offline, whose history -- the list kept under the
\* id and the list embedded in the record -- is empty and whose error ledger
\* is empty, whatever was registered under the id before.
C23_AddedDeviceIsBlank ==
    last.op = "addPrinter" =>
        /\ last.id \in DOMAIN printers
        /\ heap[printers[last.id]].id = last.id
        /\ Status(last.id) = OFFLINE
        /\ last.id \in DOMAIN statusHistory
        /\ statusHistory[last.id] = <<>>
        /\ heap[printers[last.id]].statusHistory = <<>>
        /\ Ledger(last.id) = <<>>
        /\ heap[printers[last.id]].lastErrorCode = Undefined
\* a device added again under an id whose earlier record, with another status
\* and a ledger entry, is still held by a check in flight
C23_Witness ==
    /\ last.op = "addPrinter"
    /\ Status(last.id) = OFFLINE
    /\ \E c \in CycleIds :
          /\ InFlight(c, last.id)
          /\ Given(c, last.id).status = PAPER_JAM
          /\ arrays[Given(c, last.id).errorCodes] # <<>>

\* C24: removePrinter(id) removes the record, with the ledger it holds, and
\* the history of id in one step: right after it getPrinter(id) finds
\* nothing, getAllPrinters has no record with that id, no history is kept
\* under id, and every other device has the record, ledger and history it had.
C24_RemovedTogether ==
    [][last'.op = "removePrinter" =>
        /\ last'.id \notin DOMAIN printers'
        /\ \A e \in DOMAIN printers' : heap'[printers'[e]].id # last'.id
        /\ last'.id \notin DOMAIN statusHistory'
        /\ DOMAIN printers' = DOMAIN printers \ {last'.id}
        /\ DOMAIN statusHistory' = DOMAIN statusHistory \ {last'.id}
        /\ \A e \in DOMAIN printers' :
              /\ [heap'[printers'[e]] EXCEPT !.errorCodes = NullRef]
                    = [heap[printers[e]] EXCEPT !.errorCodes = NullRef]
              /\ arrays'[heap'[printers'[e]].errorCodes]
                    = arrays[heap[printers[e]].errorCodes]
        /\ \A e \in DOMAIN statusHistory' : statusHistory'[e] = statusHistory[e]]_vars
\* the first device removed while its check was in flight; the second keeps
\* its status, history and ledger
C24_Witness ==
    /\ last.op = "removePrinter"
    /\ last.id = DevSeq[1]
    /\ \E c \in CycleIds : InFlight(c, DevSeq[1])
    /\ DOMAIN printers = {DevSeq[2]}
    /\ DOMAIN statusHistory = {DevSeq[2]}
    /\ Status(DevSeq[2]) = PAPER_JAM
    /\ History(DevSeq[2]) # <<>>
    /\ Ledger(DevSeq[2]) # <<>>
(***************************************************************************)
(* C25: persistence                                                        *)
(***************************************************************************)
\* the registry by value: each device's record with the entries of its ledger
C25_Devices ==
    [d \in DOMAIN printers |-> [heap[printers[d]] EXCEPT !.errorCodes = arrays[@]]]

C26_EntryIffStatusChanged ==
    [][\A c \in CycleIds, d \in DevIds :
         (Returns(c, d) /\ d \in DOMAIN printers) =>
            IF Status(d)' # Status(d)
            THEN /\ Len(History(d)') > 0
                 /\ History(d)'[Len(History(d)')].status = Status(d)'
                 /\ History(d)' =
                        TrimHistory(Append(History(d), History(d)'[Len(History(d)')]))
            ELSE History(d)' = History(d)]_vars

(***************************************************************************)
(* C27                                                                     *)
(***************************************************************************)
\* C27: a device that has been removed comes back, as a record or as a
\* history, only through addPrinter: any other step, the return of a check
\* that was in flight when the device was removed included, leaves an id that
\* is absent from the registry absent, and leaves it without history.
C27_RemovedStaysAbsent ==
    [][\A d \in DevIds :
         (d \notin DOMAIN printers /\ d \notin DOMAIN statusHistory
             /\ last'.op # "addPrinter") =>
            (d \notin DOMAIN printers' /\ d \notin DOMAIN statusHistory')]_vars

(***************************************************************************)
(* C28                                                                     *)
(***************************************************************************)
\* C28: in every reachable state, whatever the order in which the checks of a
\* device returned, a registered device with a non-empty history has the
\* status of the newest entry of that history.
C28_StatusIsNewestEntry ==
    \A d \in DOMAIN printers :
        Len(History(d)) > 0 => Status(d) = History(d)[Len(History(d))].status

(***************************************************************************)
(* C29                                                                     *)
(***************************************************************************)
\* C29: when a check has returned, the statusHistory of the record the
\* registry holds for the device (what getPrinter and getAllPrinters hand
\* out) is the history list kept under the device's id, the entry the check
\* appended included.
C29_EmbeddedHistoryIsLedger ==
    (last.op = "checkReturn" /\ last.id \in DOMAIN printers) =>
        heap[printers[last.id]].statusHistory = History(last.id)

(***************************************************************************)
(* C30                                                                     *)
(***************************************************************************)
\* the codes a returned check came with: the errorCode of its status data and
\* the codes found in the message handed to processErrorCodes
C30_Codes(l) ==
    (IF l.code = Undefined THEN {} ELSE {l.code})
        \cup CodeSet(parseErrorFromText(ObservedText(l)))

\* C30: when a check has returned and its status data carried an errorCode,
\* or its message contained error codes, the ledger of the device has an
\* unresolved entry for each of these codes.
C30_EveryCodeInLedger ==
    (last.op = "checkReturn" /\ last.id \in DOMAIN printers) =>
        \A code \in C30_Codes(last) : HasActive(Ledger(last.id), code)

\* the same for the codes of the message alone
C30_MessageCodesInLedger ==
    (last.op = "checkReturn" /\ last.id \in DOMAIN printers) =>
        \A code \in CodeSet(parseErrorFromText(ObservedText(last))) :
            HasActive(Ledger(last.id), code)

(***************************************************************************)
(* Claims C31 - C40                                                        *)
(***************************************************************************)
\* C31: when a check that returns has appended unresolved entries to the
\* ledger of its device, the record the registry holds for the device after
\* the check has the code of the newest of them as its lastErrorCode.
C31_LastErrorCodeIsNewest ==
    [][\A c \in CycleIds, d \in DevIds :
         (/\ Returns(c, d)
          /\ d \in DOMAIN printers
          /\ d \in DOMAIN printers'
          /\ Len(Ledger(d)') > Len(Ledger(d))) =>
            /\ ~Ledger(d)'[Len(Ledger(d)')].resolved
            /\ heap'[printers'[d]].lastErrorCode = Ledger(d)'[Len(Ledger(d)')].code]_vars

\* the same for the checks that ended in the catch block
C31_LastErrorCodeAfterException ==
    [][\A c \in CycleIds, d \in DevIds :
         (/\ Returns(c, d)
          /\ last'.path = "exception"
          /\ d \in DOMAIN printers
          /\ d \in DOMAIN printers'
          /\ Len(Ledger(d)') > Len(Ledger(d))) =>
            heap'[printers'[d]].lastErrorCode = Ledger(d)'[Len(Ledger(d)')].code]_vars

\* the status mapStatusToEnum gives for the status text of a parser call
C32_Mapped ==
    IF call.kind = "json"
    THEN mapStatusToEnum(Or3(Get(call.arg, "status"), Get(call.arg, "printerStatus"),
                             Get(call.arg, "deviceStatus")))
    ELSE mapStatusToEnum(xmlStatusText(call.arg))

\* C32: the alerts override the mapped status only in the stated cases.  In
\* particular, when no alert mentions a jam and the mapped status is neither
\* Printing nor Ready (Error, PaperOut, Offline, ...), a cartridge or a
\* load-paper alert leaves the mapped status as it is.
C32_OverrideOnlyWhenStated ==
    (/\ C16_Parsed
     /\ \A i \in 1..Len(C16_Alerts) : ~C16_Jam(C16_Alerts[i])
     /\ C32_Mapped \notin {PRINTING, READY}) =>
        call.value.status = C32_Mapped

\* what holds of the cases the claim allows: a jam alert that comes first
\* replaces any mapped status
C32_JamReplacesAny ==
    (C16_Parsed /\ C16_First > 0 /\ C16_Jam(C16_Alerts[C16_First])) =>
        call.value.status = PAPER_JAM

\* C33: a request that rejects (network error, timeout), a response that is
\* not ok and a body no parser gets a status from never end the call with an
\* exception: the next endpoint of the list is requested, and after the last
\* one the call returns null.
C33_FailureGoesOn ==
    [][(/\ fetch.state = "pending"
        /\ fetch' # fetch
        /\ fetch'.statusData = Null) =>
          /\ fetch'.response \in {"rejected", "not ok", "ok"}
          /\ IF Len(fetch.requests) < Len(fetch.endpoints)
             THEN /\ fetch'.state = "pending"
                  /\ fetch'.requests =
                        Append(fetch.requests, fetch.endpoints[Len(fetch.requests) + 1])
             ELSE /\ fetch'.state = "returned"
                  /\ fetch'.result = Null
                  /\ fetch'.requests = fetch.endpoints]_vars

\* every endpoint of a model's list was requested, the last request was
\* rejected, and the call returned null
C33_Witness ==
    /\ fetch.state = "returned"
    /\ fetch.result = Null
    /\ fetch.response = "rejected"
    /\ Len(fetch.endpoints) > 1
    /\ fetch.requests = fetch.endpoints

\* the record the registry holds for d, with the entries of its ledger
C34_Record(d) == [heap[printers[d]] EXCEPT !.errorCodes = arrays[@]]

\* C34: the return of a check of one device leaves every other device as it
\* was: registered or not, with the same record (status, ledger, most recent
\* code) and the same history, also while a check of that other device is in
\* flight.
C34_OtherDevicesUntouched ==
    [][\A c \in CycleIds, d \in DevIds :
         Returns(c, d) =>
            \A e \in DevIds \ {d} :
                /\ (e \in DOMAIN printers) = (e \in DOMAIN printers')
                /\ e \in DOMAIN printers => C34_Record(e)' = C34_Record(e)
                /\ (e \in DOMAIN statusHistory) = (e \in DOMAIN statusHistory')
                /\ History(e)' = History(e)]_vars

\* the check of the first device returns with a jam and a code while the
\* second device, checked in the same call, is Ready with a history of its own
C34_Witness ==
    /\ last.op = "checkReturn"
    /\ last.id = DevSeq[1]
    /\ DOMAIN printers = DevIds
    /\ Status(DevSeq[1]) = PAPER_JAM
    /\ Len(Ledger(DevSeq[1])) > 0
    /\ Status(DevSeq[2]) = READY
    /\ Len(History(DevSeq[2])) = 1
    /\ Len(Ledger(DevSeq[2])) = 0

\* C35: while a timer is installed its callback can fire, whether or not a
\* cycle started by an earlier tick (or by a caller) is still in flight, and
\* the timer stays installed until stopMonitoring is called: no return of a
\* check and no other operation takes the last timer away.
C35_TicksKeepFiring ==
    /\ [](\A t \in timers, c \in CycleIds : FreeSlot(c) => ENABLED Tick(t, c))
    /\ [][(timers # {} /\ timers' = {}) => last'.op = "stopMonitoring"]_vars

\* a tick has fired while the cycle of the tick before it was in flight
C35_Witness ==
    /\ last.op = "tick"
    /\ timers # {}
    /\ Cardinality({c \in CycleIds : cycles[c].kind = "tick"}) = 2
    /\ \A c \in CycleIds : \E d \in DevIds : InFlight(c, d)

\* the checks of calls started by a tick that have not returned
C36_TickChecks ==
    {<<c, d>> \in CycleIds \X DevIds : cycles[c].kind = "tick" /\ InFlight(c, d)}

\* C36: from the return of stopMonitoring until the next startMonitoring no
\* step starts a call for the scheduler: while the handle is null the checks
\* of tick calls in flight only get fewer, so a check of the scheduler that
\* writes to the registry then was in flight when stopMonitoring was called;
\* and the handle leaves null only by startMonitoring.
C36_NoTickAfterStop ==
    /\ [][monitoringInterval = NullRef =>
            /\ last'.op # "tick"
            /\ C36_TickChecks' \subseteq C36_TickChecks]_vars
    /\ [][(monitoringInterval = NullRef /\ monitoringInterval' # NullRef) =>
            last'.op = "startMonitoring"]_vars

\* a check started by a tick returns after stopMonitoring and writes its
\* status
C36_Witness ==
    /\ monitoringInterval = NullRef
    /\ timers = {}
    /\ last.op = "checkReturn"
    /\ last.kind = "tick"
    /\ last.id \in DOMAIN printers
    /\ Status(last.id) = PAPER_JAM

\* C37: every check that has started is over at some later time.
C37_EveryCheckCompletes ==
    (ping.state = "pending") ~> CheckOver

\* what the timeouts do give: a check that has started is over at some later
\* time, or is waiting for the body of a response whose headers have come
C37_OverOrReadingBody ==
    (ping.state = "pending") ~> (CheckOver \/ fetch.state = "reading")

\* the captures of pattern k in a text from index p on, in the order of their
\* positions, each match starting where the one before it ended
RECURSIVE C38_Captures(_, _, _)
C38_Captures(k, t, p) ==
    LET starts == {q \in p..Len(t) : MatchAt(k, t, q).ok} IN
    IF starts = {} THEN <<>>
    ELSE LET m == MatchAt(k, t, CHOOSE q \in starts : \A r \in starts : q <= r)
         IN  <<SubSeq(t, m.from, m.to)>> \o C38_Captures(k, t, m.to + 1)
\* the captures of the patterns k..7, pattern after pattern
RECURSIVE C38_ByPattern(_, _)
C38_ByPattern(k, t) ==
    IF k > NumPatterns THEN <<>>
    ELSE C38_Captures(k, t, 1) \o C38_ByPattern(k + 1, t)
\* a list without the elements that occur earlier in it
C38_FirstOccurrences(seq) ==
    LET keep == {i \in 1..Len(seq) : \A j \in 1..(i - 1) : seq[j] # seq[i]}
        Nth(n) == CHOOSE i \in keep : Cardinality({j \in keep : j <= i}) = n
    IN  [n \in 1..Cardinality(keep) |-> seq[Nth(n)]]

\* C38: parseErrorFromText returns each code once; the codes are in the order
\* of the patterns that captured them (XX.XX, XX.XX.XX, E-XX/W-XX, EXX, XXFx,
\* Error + digits, Code + token) and, for one pattern, of their positions in
\* the text; a code captured again, by the same or by a later pattern, stays
\* where it came first.
C38_OncePatternThenPosition ==
    call.fn = "parseErrorFromText" =>
        /\ \A i, j \in 1..Len(call.value) : i # j => call.value[i] # call.value[j]
        /\ call.value = C38_FirstOccurrences(C38_ByPattern(1, call.arg))

\* E02 comes first in the text and is captured again after the word Code,
\* 13.01 occurs twice: the result is 13.01 (pattern 1), then E02 (pattern 4)
C38_Witness ==
    /\ call.fn = "parseErrorFromText"
    /\ call.arg = <<"E","0","2"," ","t","h","e","n"," ","1","3",".","0","1"," ","C","o","d","e"," ","E","0","2"," ","1","3",".","0","1">>
    /\ call.value = <<<<"1","3",".","0","1">>, <<"E","0","2">>>>

\* C39: a call of resolveErrorCode(id, code) for an id the Map does not hold,
\* or for a code whose entries in the ledger of the device are all resolved
\* (or absent), changes no record of any device, no history list, no ledger
\* and nothing in localStorage.
C39_NothingToResolve ==
    [][\A id \in DevIds, code \in ResolveCodes :
          (/\ ResolveErrorCode(id, code)
           /\ \/ id \notin DOMAIN printers
              \/ ~\E i \in 1..Len(Ledger(id)) :
                    Ledger(id)[i].code = code /\ ~Ledger(id)[i].resolved)
          => /\ printers' = printers
             /\ heap' = heap
             /\ arrays' = arrays
             /\ statusHistory' = statusHistory
             /\ storage' = storage]_vars

\* a call for a code of a registered device that was resolved before
C39_Witness ==
    /\ last.op = "resolveErrorCode"
    /\ last.path = "none"
    /\ last.id \in DOMAIN printers
    /\ Cardinality(DOMAIN printers) = 2
    /\ EntriesOf(Ledger(last.id), last.code) # <<>>
    /\ \A i \in 1..Len(Ledger(last.id)) :
          Ledger(last.id)[i].code = last.code => Ledger(last.id)[i].resolved

\* a call for an id that is not registered, beside a registered device that
\* has an unresolved entry for the code
C39_WitnessUnknownId ==
    /\ last.op = "resolveErrorCode"
    /\ last.path = "none"
    /\ last.id \notin DOMAIN printers
    /\ \E d \in DOMAIN printers : HasActive(Ledger(d), last.code)

(***************************************************************************)
(* The service and the clock                                               *)
(***************************************************************************)
\* readings of the clock: time is counted up to here
MaxTime == 1

\* time passes between two steps of the service
ClockAdvances ==
    /\ now < MaxTime
    /\ now' = now + 1
    /\ UNCHANGED <<printers, statusHistory, monitoringInterval, heap, arrays,
                   timers, cycles, started, last, fetch, call, ping, storage>>

\* One device checked for as long as one likes while time passes; its first
\* checks may be in flight together, the later ones come one after the other.
NextClock ==
    \/ \E id \in OneDev : Idle /\ AddPrinter(id)
    \/ \E id \in OneDev : Idle /\ RemovePrinter(id)
    \/ \E c \in CycleIds, id \in OneDev :
         (Idle \/ started < MaxChecks) /\ CheckPrinterStatus(c, id)
    \/ \E c \in CycleIds, d \in OneDev : CheckUnreachable(c, d)
    \/ \E c \in CycleIds, d \in OneDev : CheckExhausted(c, d)
    \/ ClockAdvances

SpecClock == Init /\ [][NextClock]_vars

(***************************************************************************)
(* C40                                                                     *)
(***************************************************************************)
\* C40: in the history list of every device, and in the copy of it each
\* Printer object holds, the timestamps never decrease from the oldest entry
\* to the newest, whatever the order in which the checks return and however
\* many entries have been dropped at the limit of 50 (the clock being one
\* that does not go back).
C40_TimestampsInOrder ==
    /\ \A d \in DOMAIN statusHistory :
          \A i \in 1..(Len(statusHistory[d]) - 1) :
             statusHistory[d][i].timestamp <= statusHistory[d][i + 1].timestamp
    /\ \A r \in ObjRefs :
          \A i \in 1..(Len(heap[r].statusHistory) - 1) :
             heap[r].statusHistory[i].timestamp <= heap[r].statusHistory[i + 1].timestamp

\* a full history that has lost entries (the first entry a device ever gets
\* is Ready, and here the oldest is Offline) and in which time has passed
\* between the oldest entry and the newest
C40_Witness ==
    \E d \in DOMAIN statusHistory :
        /\ Len(statusHistory[d]) = HistoryLimit
        /\ statusHistory[d][1].status = OFFLINE
        /\ statusHistory[d][1].timestamp < statusHistory[d][HistoryLimit].timestamp

\* two checks in flight together have each left an entry, at different times
C40_WitnessOverlap ==
    \E d \in DOMAIN statusHistory :
        /\ Len(statusHistory[d]) = 2
        /\ statusHistory[d][1].status = statusHistory[d][2].status
        /\ statusHistory[d][1].timestamp < statusHistory[d][2].timestamp

====
